---- MODULE Spec2Model ----
(***************************************************************************)
(* Verification model of the chessbot backend services:                    *)
(*   - AnalysisCacheService   (services/cache_service.py)                  *)
(*   - PositionAnalysisCache  (services/analysis_cache.py)                 *)
(*   - CoachService           (services/coach_service.py)                  *)
(*   - GameAnalyzerService    (services/game_analyzer.py)                  *)
(*   - BackgroundAnalyzer     (services/background_analyzer.py)            *)
(* All services run on one asyncio event loop: a handler or task runs      *)
(* without interruption from one await to the next, so every action below  *)
(* is the code between two suspension points.                              *)
(***************************************************************************)
EXTENDS Integers, Sequences, FiniteSets, TLC

\* ------------------------------------------------------------------------
\* Bounds of the model
\* ------------------------------------------------------------------------
\* largest analysis depth used by a caller of the evaluation cache
MaxDepth == 2
\* the evaluation-cache clock stops advancing after this many seconds
MaxTime == 452
\* number of positions the coach is asked about
NumKeys == 2
\* number of concurrent chat() calls
NumChats == 1
\* PositionAnalysisCache(max_size=...): capacity of the strategic cache
max_size == 2
\* number of full-game analysis jobs
NumJobs == 2
\* number of moves of the analysed game
NumMoves == 2
\* MAX_PRIORITY_WAITS of game_analyzer.py (60 polls of 500 ms), scaled down: the
\* number of polls after which _yield_for_priority_work stops waiting
MaxPriorityWaits == 2
\* number of pre-warm jobs that can be started
MaxBgJobs == 3
\* number of concurrent callers of the pre-warmer
NumCallers == 2
\* number of strategic generation tasks that can be in flight
MaxGens == 2
\* number of tasks that call wait_for_analysis directly
NumWaiters == 2
\* number of keys those tasks wait for and their producers mark as analyzing
NumWaitKeys == 1
\* centipawn evaluations range over -MaxEval..MaxEval
MaxEval == 26
\* centipawn losses given to classify_move range over 0..MaxLoss
MaxLoss == 101
\* a response has at most MaxWords words
MaxWords == 4
\* max_retries ranges over 0..MaxRetries
MaxRetries == 2
\* move_rank ranges over 0..MaxRank (0: the move is not among the top moves)
MaxRank == 3

\* ------------------------------------------------------------------------
\* State
\* ------------------------------------------------------------------------
\* evaluation cache (AnalysisCacheService)
VARIABLES
  evalCache,   \* AnalysisCacheService._cache: normalized key -> CacheEntry
  now,         \* time.time()
  lastOp       \* the last evaluation-cache call and what it found and returned

\* strategic cache (PositionAnalysisCache) and chat() calls
VARIABLES
  stratCache,  \* PositionAnalysisCache._cache: OrderedDict, oldest use first
  pending,     \* PositionAnalysisCache._pending: fen -> asyncio.Event
  eventSet,    \* asyncio.Event.is_set() of every event object
  chatPc,      \* position of each chat() call
  chatFen,     \* request.fen of each chat() call in progress
  chatEvent    \* the event a chat() call waits on in wait_for_analysis

\* full-game analysis jobs (GameAnalyzerService)
VARIABLES
  jobStatus,     \* job.status; "NONE" while the id is not in _jobs
  jobDepth,      \* job.depth
  jobPc,         \* where the task of the job is suspended
  jobFut,        \* outcome of the future the task awaits
  jobCancelReq,  \* Task.cancel() was called and CancelledError is not yet thrown in
  jobThread,     \* an executor thread still runs the evaluator for the job
  jobWait,       \* wait_count of _yield_for_priority_work
  analyzed,      \* job.analyzed_moves
  currentEval,   \* current_eval of _run_analysis
  jobError,      \* job.error
  jobSets,       \* number of evaluation-cache set calls the task has made
  cancelTrue,    \* number of cancel_job calls that returned true, per job
  lastCancel     \* the last cancel_job call: job id and value returned

\* cache pre-warming (BackgroundAnalyzer)
VARIABLES
  bgCurrent,     \* BackgroundAnalyzer._current_job (0: None)
  bgTask,        \* BackgroundAnalyzer._task (0: None), named by its job
  bgLock,        \* the caller holding BackgroundAnalyzer._lock (0: free)
  bgCancelled,   \* job.is_cancelled
  bgComplete,    \* job.is_complete
  bgIndex,       \* job.current_index
  bgPc,          \* the task of the job: none, created, running, sleep, done
  bgPos,         \* next position the task handles (0: the starting position)
  bgCancelReq,   \* Task.cancel() was called and CancelledError is not yet thrown in
  bgYields,      \* whether the task suspended after the position it handled last
  callerPc,      \* where each request handler is suspended
  lastBgCancel,  \* value returned by the last cancel_current_job call
  bgCancelSeen,  \* what the last cancel_current_job call found under the lock
  bgError,       \* job.error
  bgLog          \* what the task did at each position it handled, in order

\* strategic generations (CoachService)
VARIABLES
  genPc,       \* a generation task: free (no task), created, stockfish, claude
  genKey,      \* fen of the generation task
  lastGenEnd,  \* how the generation that ended last left: fen and exit path
  genCleared   \* the cache was cleared since the generation task was created

\* direct callers of PositionAnalysisCache
VARIABLES
  waitPc,      \* a wait_for_analysis call: idle, blocked, or timedout (its timeout
               \* elapsed while it was blocked and it has not resumed yet)
  waitFen,     \* fen of the wait_for_analysis call
  waitEvent,   \* the event the call awaits (0: none)
  waitWoken,   \* how often the awaited event was set during the call
  waitSetSeen, \* set(fen, ...) ran while the call was blocked, and since then
               \* only operations on other keys have run
  lastWait,    \* the wait_for_analysis call that ended last and its outcome
  useOrder     \* the keys in the order of their most recent use (get hit or set)
               \* since the cache was last cleared

\* the scoring functions
VARIABLES
  scoreIn,     \* the arguments the function is applied to
  scoreOut     \* the function applied last and what it returned

\* the response validator
VARIABLES
  valText,     \* the response given to validate_and_correct
  valBoard,    \* the position the response is about
  valOut,      \* what validate_and_correct returned
  retryMax,    \* max_retries of the validate_with_retry call
  retryCtx,    \* error_context
  retryLog,    \* the calls of generate_fn so far: the context given, the response
  retryOut     \* what validate_with_retry returned

cacheVars == <<evalCache, now, lastOp>>

scoreVars == <<scoreIn, scoreOut>>

valVars == <<valText, valBoard, valOut>>

retryVars == <<retryMax, retryCtx, retryLog, retryOut>>

fnVars == <<scoreVars, valVars, retryVars>>

pacVars == <<waitPc, waitFen, waitEvent, waitWoken, waitSetSeen, lastWait, useOrder>>

stratVars == <<stratCache, pending, eventSet>>

chatVars == <<chatPc, chatFen, chatEvent>>

jobVars == <<jobStatus, jobDepth, jobPc, jobFut, jobCancelReq, jobThread, jobWait,
             analyzed, currentEval, jobError, jobSets, cancelTrue, lastCancel>>

bgVars == <<bgCurrent, bgTask, bgLock, bgCancelled, bgComplete, bgIndex, bgPc, bgPos,
            bgCancelReq, bgYields, callerPc, lastBgCancel, bgCancelSeen, bgError, bgLog>>

genVars == <<genPc, genKey, lastGenEnd, genCleared>>

\* ------------------------------------------------------------------------
\* Evaluation cache: AnalysisCacheService
\* ------------------------------------------------------------------------
DEFAULT_TTL_SECONDS == 300

None == "None"

\* assignment to a field of one object (job, task, call)
Upd(f, j, v) == [f EXCEPT ![j] = v]

\* A FEN is modelled as the list of its whitespace-separated fields
\* (the value of fen.split()); the first two differ in their clocks only.
FenList ==
  << <<"posA", "w", "KQkq", "-", "0", "1">>,
     <<"posB", "b", "KQkq", "-", "0", "1">>,
     <<"posA", "w", "KQkq", "-", "7", "12">> >>

Fens == {FenList[i] : i \in 1..Len(FenList)}

Responses == {"r1", "r2"}
Depths == 1..MaxDepth
MinDepths == 0..MaxDepth
\* amounts by which the clock advances between two operations
TimeSteps == {DEFAULT_TTL_SECONDS \div 2, DEFAULT_TTL_SECONDS \div 2 + 1}

\* a key function that keeps the clocks: the FEN itself is the key
_normalize_fen_keeps_clocks(fen) == fen

\* AnalysisCacheService._normalize_fen
_normalize_fen(fen) == IF Len(fen) >= 4 THEN SubSeq(fen, 1, 4) ELSE fen

CacheEntry(response, timestamp, depth) ==
  [response |-> response, timestamp |-> timestamp, depth |-> depth]

\* the value of self._cache.get(key) when the key is absent
NoEntry == [response |-> None, timestamp |-> 0 - 1, depth |-> 0 - 1]

\* self._cache.get(key)
Lookup(cache, key) == IF key \in DOMAIN cache THEN cache[key] ELSE NoEntry

Without(cache, key) == [k \in (DOMAIN cache) \ {key} |-> cache[k]]

With(cache, key, entry) ==
  [k \in (DOMAIN cache) \cup {key} |-> IF k = key THEN entry ELSE cache[k]]

\* mutant of AnalysisCacheService.get: an entry expires when its age reaches the
\* TTL
CacheGetExpiresAtTtl(cache, fen, min_depth, t) ==
  LET key == _normalize_fen(fen)
      entry == Lookup(cache, key)
  IN  IF entry = NoEntry THEN None
      ELSE IF t - entry.timestamp >= DEFAULT_TTL_SECONDS THEN None
      ELSE IF entry.depth < min_depth THEN None
      ELSE entry.response

\* AnalysisCacheService.get: the value returned
CacheGetResult(cache, fen, min_depth, t) ==
  LET key == _normalize_fen(fen)
      entry == Lookup(cache, key)
  IN  IF entry = NoEntry THEN None
      ELSE IF t - entry.timestamp > DEFAULT_TTL_SECONDS THEN None
      ELSE IF entry.depth < min_depth THEN None
      ELSE entry.response

\* AnalysisCacheService.get: the cache it leaves (an expired entry is deleted)
CacheGetState(cache, fen, t) ==
  LET key == _normalize_fen(fen)
      entry == Lookup(cache, key)
  IN  IF entry # NoEntry /\ t - entry.timestamp > DEFAULT_TTL_SECONDS
      THEN Without(cache, key)
      ELSE cache

\* mutants of AnalysisCacheService.set
CacheSetAlways(cache, fen, response, depth, t) ==
  With(cache, _normalize_fen(fen), CacheEntry(response, t, depth))

CacheSetSkipEqual(cache, fen, response, depth, t) ==
  LET key == _normalize_fen(fen)
      existing == Lookup(cache, key)
  IN  IF existing # NoEntry /\ existing.depth >= depth
      THEN cache
      ELSE With(cache, key, CacheEntry(response, t, depth))

\* AnalysisCacheService.set
CacheSet(cache, fen, response, depth, t) ==
  LET key == _normalize_fen(fen)
      existing == Lookup(cache, key)
  IN  IF existing # NoEntry /\ existing.depth > depth
      THEN cache
      ELSE With(cache, key, CacheEntry(response, t, depth))

\* a caller (pre-warmer, game analyzer, range analysis) stores a result
DoCacheSet(fen, response, depth) ==
  /\ evalCache' = CacheSet(evalCache, fen, response, depth, now)
  /\ lastOp' = [op |-> "set", fen |-> fen, response |-> response, depth |-> depth,
                prev |-> Lookup(evalCache, _normalize_fen(fen)), result |-> None]
  /\ UNCHANGED <<now, stratVars, chatVars, jobVars, bgVars, genVars, pacVars, fnVars>>

\* a caller looks a position up
DoCacheGet(fen, min_depth) ==
  /\ evalCache' = CacheGetState(evalCache, fen, now)
  /\ lastOp' = [op |-> "get", fen |-> fen, response |-> None, depth |-> min_depth,
                prev |-> Lookup(evalCache, _normalize_fen(fen)),
                result |-> CacheGetResult(evalCache, fen, min_depth, now)]
  /\ UNCHANGED <<now, stratVars, chatVars, jobVars, bgVars, genVars, pacVars, fnVars>>

\* time passes between two calls
Tick(dt) ==
  /\ now + dt <= MaxTime
  /\ now' = now + dt
  /\ lastOp' = [op |-> "tick", fen |-> <<>>, response |-> None, depth |-> 0,
                prev |-> NoEntry, result |-> None]
  /\ UNCHANGED <<evalCache, stratVars, chatVars, jobVars, bgVars, genVars, pacVars, fnVars>>

NoOp == [op |-> "init", fen |-> <<>>, response |-> None, depth |-> 0,
         prev |-> NoEntry, result |-> None]

\* ------------------------------------------------------------------------
\* Strategic cache: PositionAnalysisCache
\* ------------------------------------------------------------------------
\* the positions the coach is asked about: the first NumKeys of FenList
StratFens == {FenList[i] : i \in 1..NumKeys}
\* identities of asyncio.Event objects; an identity is reused once no marker
\* and no waiter refers to the old object any more
EventIds == 1..(NumKeys + NumChats + max_size + 1 + NumWaiters)

\* fen in self._cache
InCache(cache, fen) == \E i \in 1..Len(cache) : cache[i].fen = fen

SelectSeqNot(cache, fen) ==
  LET keep(e) == e.fen # fen IN SelectSeq(cache, keep)

\* self._cache.get(fen) of the OrderedDict; an analysis is named by the
\* generation task that produced it, 0 stands for None
StratLookup(cache, fen) ==
  IF InCache(cache, fen)
  THEN (CHOOSE e \in {cache[i] : i \in 1..Len(cache)} : e.fen = fen).analysis
  ELSE 0

\* mutant of PositionAnalysisCache.get: a hit leaves the order of the keys alone
StratGetNoMove(cache, fen) == cache

\* PositionAnalysisCache.get: a hit moves the key to the end
StratGetState(cache, fen) ==
  IF InCache(cache, fen)
  THEN Append(SelectSeqNot(cache, fen), [fen |-> fen, analysis |-> StratLookup(cache, fen)])
  ELSE cache

\* mutant of the eviction loop of PositionAnalysisCache.set: nothing is evicted
EvictNothing(cache) == cache

RECURSIVE Evict(_)
\* while len(self._cache) > self._max_size: self._cache.popitem(last=False)
Evict(cache) == IF Len(cache) > max_size THEN Evict(Tail(cache)) ELSE cache

\* PositionAnalysisCache.set: the OrderedDict it leaves
StratSetCache(cache, fen, analysis) ==
  Evict(Append(SelectSeqNot(cache, fen), [fen |-> fen, analysis |-> analysis]))

\* the events some marker or some waiter still refers to
EventsInUse ==
  {pending[k] : k \in DOMAIN pending} \cup {chatEvent[c] : c \in DOMAIN chatEvent}
    \cup {waitEvent[w] : w \in DOMAIN waitEvent}

\* asyncio.Event(): a new, unset event object
NewEvent == CHOOSE e \in EventIds \ EventsInUse : \A o \in EventIds \ EventsInUse : e <= o

\* PositionAnalysisCache.is_analyzing
is_analyzing(fen) == fen \in DOMAIN pending

\* PositionAnalysisCache.pending_count
pending_count == Cardinality(DOMAIN pending)

\* mutant of mark_analyzing: the event of a key that is already pending is
\* replaced by a new one
mark_analyzing_again(fen) ==
  /\ pending' = With(pending, fen, NewEvent)
  /\ eventSet' = [eventSet EXCEPT ![NewEvent] = FALSE]

\* PositionAnalysisCache.mark_analyzing
mark_analyzing(fen) ==
  IF fen \notin DOMAIN pending
  THEN /\ pending' = With(pending, fen, NewEvent)
       /\ eventSet' = [eventSet EXCEPT ![NewEvent] = FALSE]
  ELSE UNCHANGED <<pending, eventSet>>

\* PositionAnalysisCache.cancel_pending, and the last lines of set:
\* the event of the marker is set and the marker deleted
cancel_pending(fen) ==
  IF fen \in DOMAIN pending
  THEN /\ eventSet' = [eventSet EXCEPT ![pending[fen]] = TRUE]
       /\ pending' = Without(pending, fen)
  ELSE UNCHANGED <<pending, eventSet>>

\* PositionAnalysisCache.set
StratSet(fen, analysis) ==
  /\ stratCache' = StratSetCache(stratCache, fen, analysis)
  /\ cancel_pending(fen)

\* PositionAnalysisCache.clear / clear_for_new_game
StratClear ==
  /\ eventSet' = [e \in EventIds |->
                    IF e \in {pending[k] : k \in DOMAIN pending} THEN TRUE ELSE eventSet[e]]
  /\ pending' = <<>>
  /\ stratCache' = <<>>

StratInit ==
  /\ stratCache = <<>>
  /\ pending = <<>>
  /\ eventSet = [e \in EventIds |-> FALSE]
  /\ chatPc = [c \in 1..NumChats |-> "idle"]
  /\ chatFen = [c \in 1..NumChats |-> FenList[1]]
  /\ chatEvent = [c \in 1..NumChats |-> 0]

\* ------------------------------------------------------------------------
\* PositionAnalysisCache under arbitrary callers
\* ------------------------------------------------------------------------
\* the keys the callers use: one more than the cache can hold
PacFenList == FenList \o << <<"posC", "w", "-", "-", "3", "20">> >>
PacFens == {PacFenList[i] : i \in 1..(max_size + 1)}
\* the analyses stored: an analysis is named by a number, 0 stands for None
Analyses == {1}
Waiters == 1..NumWaiters
\* the keys that are marked as analyzing and waited for
WaitFens == {PacFenList[i] : i \in 1..NumWaitKeys}

\* a key is used by a get or a set: it becomes the most recently used one
Used(order, fen, by) ==
  Append(SelectSeq(order, LAMBDA u : u.fen # fen), [fen |-> fen, by |-> by])

\* the waiters whose awaited future the event of the marker of fen completes:
\* Event.set() completes the futures that are not done (not cancelled by a
\* timeout, not completed before)
WokenBy(events) ==
  {w \in Waiters : waitPc[w] = "blocked" /\ waitEvent[w] \in events /\ ~eventSet[waitEvent[w]]}

\* an operation sets the events of `events`; seen tells which waiters have then
\* a set of their key behind them with nothing but other keys' operations since
Effect(events, seen) ==
  /\ waitWoken' = [w \in Waiters |->
                     IF w \in WokenBy(events) THEN waitWoken[w] + 1 ELSE waitWoken[w]]
  /\ waitSetSeen' = [w \in Waiters |-> seen[w]]
  /\ UNCHANGED <<waitPc, waitFen, waitEvent, lastWait>>

\* an operation on key fen other than set: it is not an operation on another
\* key for the waiters of fen
Touches(fen) == [w \in Waiters |-> waitSetSeen[w] /\ waitFen[w] # fen]

MarkerOf(fen) == IF fen \in DOMAIN pending THEN {pending[fen]} ELSE {}

\* PositionAnalysisCache.get
PacGet(fen) ==
  /\ stratCache' = StratGetState(stratCache, fen)
  /\ useOrder' = IF InCache(stratCache, fen) THEN Used(useOrder, fen, "get") ELSE useOrder
  /\ Effect({}, Touches(fen))
  /\ UNCHANGED <<pending, eventSet>>
  /\ UNCHANGED <<cacheVars, chatVars, jobVars, bgVars, genVars, fnVars>>

\* PositionAnalysisCache.set
PacSet(fen, analysis) ==
  /\ StratSet(fen, analysis)
  /\ useOrder' = Used(useOrder, fen, "set")
  /\ Effect(MarkerOf(fen),
            [w \in Waiters |-> IF waitFen[w] = fen THEN waitPc[w] = "blocked"
                               ELSE waitSetSeen[w]])
  /\ UNCHANGED <<cacheVars, chatVars, jobVars, bgVars, genVars, fnVars>>

\* PositionAnalysisCache.mark_analyzing
PacMark(fen) ==
  /\ mark_analyzing(fen)
  /\ Effect({}, Touches(fen))
  /\ UNCHANGED <<stratCache, useOrder>>
  /\ UNCHANGED <<cacheVars, chatVars, jobVars, bgVars, genVars, fnVars>>

\* PositionAnalysisCache.cancel_pending
PacCancelPending(fen) ==
  /\ cancel_pending(fen)
  /\ Effect(MarkerOf(fen), Touches(fen))
  /\ UNCHANGED <<stratCache, useOrder>>
  /\ UNCHANGED <<cacheVars, chatVars, jobVars, bgVars, genVars, fnVars>>

\* PositionAnalysisCache.clear
PacClear ==
  /\ StratClear
  /\ Effect({pending[k] : k \in DOMAIN pending}, [w \in Waiters |-> FALSE])
  /\ useOrder' = <<>>
  /\ UNCHANGED <<cacheVars, chatVars, jobVars, bgVars, genVars, fnVars>>

\* a wait_for_analysis call ends
WaitReturns(w, how, result) ==
  /\ lastWait' = [how |-> how, result |-> result]
  /\ waitPc' = Upd(waitPc, w, "idle")
  /\ waitFen' = Upd(waitFen, w, PacFenList[1])
  /\ waitEvent' = Upd(waitEvent, w, 0)
  /\ waitWoken' = Upd(waitWoken, w, 0)
  /\ waitSetSeen' = Upd(waitSetSeen, w, FALSE)

\* mutant of wait_for_analysis: asyncio.TimeoutError is not caught
TimeoutPropagates == "raised"

\* `except asyncio.TimeoutError: return None`
TimeoutCaught == "absent"

\* wait_for_analysis up to its await: with no marker it returns
\* self._cache.get(fen) of the OrderedDict at once (the order of use is not
\* touched), otherwise it awaits the event of the marker
WaitBegin(w, fen) ==
  /\ waitPc[w] = "idle"
  /\ IF fen \in DOMAIN pending
     THEN /\ waitPc' = Upd(waitPc, w, "blocked")
          /\ waitFen' = Upd(waitFen, w, fen)
          /\ waitEvent' = Upd(waitEvent, w, pending[fen])
          /\ UNCHANGED <<waitWoken, waitSetSeen, lastWait>>
     ELSE /\ lastWait' = [how |-> "returned", result |-> StratLookup(stratCache, fen)]
          /\ UNCHANGED <<waitPc, waitFen, waitEvent, waitWoken, waitSetSeen>>
  /\ UNCHANGED <<stratVars, useOrder>>
  /\ UNCHANGED <<cacheVars, chatVars, jobVars, bgVars, genVars, fnVars>>

\* the timeout of asyncio.wait_for elapses while the event is not set: the wait
\* is cancelled and asyncio.TimeoutError will be raised in the task
WaitTimeout(w) ==
  /\ waitPc[w] = "blocked" /\ ~eventSet[waitEvent[w]]
  /\ waitPc' = Upd(waitPc, w, "timedout")
  /\ UNCHANGED <<waitFen, waitEvent, waitWoken, waitSetSeen, lastWait>>
  /\ UNCHANGED <<stratVars, useOrder>>
  /\ UNCHANGED <<cacheVars, chatVars, jobVars, bgVars, genVars, fnVars>>

\* the event loop resumes the task: after a timeout the except clause runs,
\* after the event was set self._cache.get(fen) is returned
WaitResume(w) ==
  /\ \/ waitPc[w] = "timedout"
     \/ waitPc[w] = "blocked" /\ eventSet[waitEvent[w]]
  /\ IF waitPc[w] = "timedout"
     THEN WaitReturns(w, TimeoutCaught, 0)
     ELSE WaitReturns(w, "returned", StratLookup(stratCache, waitFen[w]))
  /\ UNCHANGED <<stratVars, useOrder>>
  /\ UNCHANGED <<cacheVars, chatVars, jobVars, bgVars, genVars, fnVars>>

PacInit ==
  /\ waitPc = [w \in Waiters |-> "idle"]
  /\ waitFen = [w \in Waiters |-> PacFenList[1]]
  /\ waitEvent = [w \in Waiters |-> 0]
  /\ waitWoken = [w \in Waiters |-> 0]
  /\ waitSetSeen = [w \in Waiters |-> FALSE]
  /\ lastWait = [how |-> "none", result |-> 0]
  /\ useOrder = <<>>

PacNext ==
  \/ \E f \in PacFens : PacGet(f)
  \/ \E f \in PacFens, a \in Analyses : PacSet(f, a)
  \/ \E f \in WaitFens : PacMark(f)
  \/ \E f \in WaitFens : PacCancelPending(f)
  \/ PacClear
  \/ \E w \in Waiters, f \in WaitFens : WaitBegin(w, f)
  \/ \E w \in Waiters : WaitTimeout(w)
  \/ \E w \in Waiters : WaitResume(w)

\* ------------------------------------------------------------------------
\* Full-game analysis: GameAnalyzerService and its GameAnalysisJob tasks
\* ------------------------------------------------------------------------
JobIds == 1..NumJobs

\* job.moves[i].fen: every job analyses the same game
MoveFen(i) == FenList[((i - 1) % Len(FenList)) + 1]
\* job.starting_fen
StartingFen == FenList[Len(FenList)]

\* the depth each job is started with: the jobs differ in depth
JobDepthOf(j) == ((j - 1) % MaxDepth) + 1

Terminal == {"COMPLETED", "FAILED", "CANCELLED"}

\* GameAnalysisJob.is_complete
is_complete(status) == status \in Terminal

\* _has_pending_priority_work
_has_pending_priority_work == pending_count > 0

\* the task returns: the coroutine is finished
TaskReturns(j) ==
  /\ jobPc' = Upd(jobPc, j, "done")
  /\ jobFut' = Upd(jobFut, j, "none")

\* loop.run_in_executor(None, lambda: stockfish.analyze(...)) is awaited
Dispatch(j, pc) ==
  /\ jobPc' = Upd(jobPc, j, pc)
  /\ jobFut' = Upd(jobFut, j, "running")
  /\ jobThread' = Upd(jobThread, j, TRUE)

\* asyncio.sleep(...) is awaited
Sleep(j, pc) ==
  /\ jobPc' = Upd(jobPc, j, pc)
  /\ jobFut' = Upd(jobFut, j, "sleep")
  /\ UNCHANGED jobThread

\* _yield_for_priority_work from the loop test on, with wait_count = w; it
\* either suspends in asyncio.sleep(PRIORITY_WAIT_MS) or returns to _run_analysis,
\* which returns (False) or goes on to its next await (True)
YieldLoop(j, w, stage, status) ==
  /\ jobWait' = Upd(jobWait, j, w)
  /\ IF _has_pending_priority_work /\ w < MaxPriorityWaits
     THEN IF status = "CANCELLED"
          THEN TaskReturns(j) /\ UNCHANGED jobThread
          ELSE Sleep(j, IF stage = 0 THEN "wait0" ELSE "waitI")
     ELSE IF status = "CANCELLED"
          THEN TaskReturns(j) /\ UNCHANGED jobThread
          ELSE IF stage = 0
               THEN Dispatch(j, "eval0")
               ELSE Sleep(j, "sleep")

\* top of an iteration of `for i, move in enumerate(job.moves)` when n moves
\* have been analysed, up to the next await
LoopTop(j, n, status) ==
  IF n >= NumMoves
  THEN /\ jobStatus' = Upd(jobStatus, j, "COMPLETED")
       /\ TaskReturns(j)
       /\ UNCHANGED <<jobThread, jobWait>>
  ELSE /\ jobStatus' = Upd(jobStatus, j, status)
       /\ IF status = "CANCELLED"
          THEN TaskReturns(j) /\ UNCHANGED <<jobThread, jobWait>>
          ELSE YieldLoop(j, 0, 1, status)

\* mutant of _run_analysis: eval_before is taken from the position after the move
AnalyzedMoveNoBefore(n, before, after) ==
  [ply |-> n, eval_before |-> after, eval_after |-> after]

\* AnalyzedMove(ply=move.ply, eval_before=..., eval_after=..., ...)
AnalyzedMove(n, before, after) == [ply |-> n, eval_before |-> before, eval_after |-> after]

\* GameAnalyzerService.start_analysis
StartJob(j, d) ==
  /\ jobStatus[j] = "NONE"
  /\ \A i \in JobIds : i < j => jobStatus[i] # "NONE"
  /\ jobStatus' = Upd(jobStatus, j, "PENDING")
  /\ jobDepth' = Upd(jobDepth, j, d)
  /\ jobPc' = Upd(jobPc, j, "created")
  /\ UNCHANGED <<jobFut, jobCancelReq, jobThread, jobWait, analyzed, currentEval,
                 jobError, jobSets, cancelTrue, lastCancel>>
  /\ UNCHANGED <<cacheVars, stratVars, chatVars, bgVars, genVars, pacVars, fnVars>>

\* mutant of cancel_job: job._task.cancel() is not called
TaskCancelMissing(j) == FALSE

\* job._task.cancel(): a task that is not done will have CancelledError thrown in
TaskCancelCall(j) == jobPc[j] # "done"

\* mutant of cancel_job: the is_complete test is missing
CancelGuardNoComplete(j) == jobStatus[j] # "NONE" /\ jobPc[j] # "none"

\* cancel_job: `job and not job.is_complete and job._task`
CancelGuard(j) ==
  jobStatus[j] # "NONE" /\ ~is_complete(jobStatus[j]) /\ jobPc[j] # "none"

\* GameAnalyzerService.cancel_job
CancelJob(j) ==
  /\ lastCancel' = [job |-> j, ret |-> CancelGuard(j)]
  /\ IF CancelGuard(j)
     THEN /\ jobCancelReq' = Upd(jobCancelReq, j, TaskCancelCall(j))
          /\ jobStatus' = Upd(jobStatus, j, "CANCELLED")
          /\ cancelTrue' = Upd(cancelTrue, j, cancelTrue[j] + 1)
     ELSE UNCHANGED <<jobCancelReq, jobStatus, cancelTrue>>
  /\ UNCHANGED <<jobDepth, jobPc, jobFut, jobThread, jobWait, analyzed, currentEval,
                 jobError, jobSets>>
  /\ UNCHANGED <<cacheVars, stratVars, chatVars, bgVars, genVars, pacVars, fnVars>>

\* _run_analysis from its first line to its first await
TaskStart(j) ==
  /\ jobPc[j] = "created" /\ ~jobCancelReq[j]
  /\ jobStatus' = Upd(jobStatus, j, "IN_PROGRESS")
  /\ YieldLoop(j, 0, 0, "IN_PROGRESS")
  /\ UNCHANGED <<jobDepth, jobCancelReq, analyzed, currentEval, jobError, jobSets,
                 cancelTrue, lastCancel>>
  /\ UNCHANGED <<cacheVars, stratVars, chatVars, bgVars, genVars, pacVars, fnVars>>

\* a poll that is not counted
PolledNotCounted(wait_count) == wait_count

\* `wait_count += 1`
Polled(wait_count) == wait_count + 1

\* _yield_for_priority_work resumes after asyncio.sleep(PRIORITY_WAIT_MS / 1000)
TaskPoll(j) ==
  /\ jobPc[j] \in {"wait0", "waitI"} /\ ~jobCancelReq[j]
  /\ YieldLoop(j, Polled(jobWait[j]), IF jobPc[j] = "wait0" THEN 0 ELSE 1, jobStatus[j])
  /\ UNCHANGED <<jobStatus, jobDepth, jobCancelReq, analyzed, currentEval, jobError,
                 jobSets, cancelTrue, lastCancel>>
  /\ UNCHANGED <<cacheVars, stratVars, chatVars, bgVars, genVars, pacVars, fnVars>>

\* the evaluation of the starting position arrives: current_eval is set and the
\* loop over the moves is entered
TaskStartEval(j) ==
  /\ jobPc[j] = "eval0" /\ jobFut[j] \in Responses /\ ~jobCancelReq[j]
  /\ currentEval' = Upd(currentEval, j, jobFut[j])
  /\ LoopTop(j, 0, jobStatus[j])
  /\ UNCHANGED <<jobDepth, jobCancelReq, analyzed, jobError, jobSets, cancelTrue,
                 lastCancel>>
  /\ UNCHANGED <<cacheVars, stratVars, chatVars, bgVars, genVars, pacVars, fnVars>>

\* after asyncio.sleep(YIELD_INTERVAL_MS / 1000): the cache is asked for the
\* position after the move; a hit completes the move, a miss dispatches the
\* evaluator
TaskLookup(j) ==
  LET n == Len(analyzed[j])
      fen == MoveFen(n + 1)
      cached == CacheGetResult(evalCache, fen, jobDepth[j], now)
  IN  /\ jobPc[j] = "sleep" /\ ~jobCancelReq[j]
      /\ evalCache' = CacheGetState(evalCache, fen, now)
      /\ IF cached # None
         THEN /\ analyzed' = Upd(analyzed, j,
                    Append(analyzed[j], AnalyzedMove(n + 1, currentEval[j], cached)))
              /\ currentEval' = Upd(currentEval, j, cached)
              /\ LoopTop(j, n + 1, jobStatus[j])
         ELSE /\ Dispatch(j, "evalI")
              /\ UNCHANGED <<analyzed, currentEval, jobStatus, jobWait>>
      /\ UNCHANGED <<jobDepth, jobCancelReq, jobError, jobSets, cancelTrue, lastCancel>>
      /\ UNCHANGED <<now, lastOp, stratVars, chatVars, bgVars, genVars, pacVars, fnVars>>

\* the evaluation of the position after the move arrives: it is cached, the
\* move is appended and the next iteration starts
TaskMoveEval(j) ==
  LET n == Len(analyzed[j])
      fen == MoveFen(n + 1)
  IN  /\ jobPc[j] = "evalI" /\ jobFut[j] \in Responses /\ ~jobCancelReq[j]
      /\ evalCache' = CacheSet(evalCache, fen, jobFut[j], jobDepth[j], now)
      /\ jobSets' = Upd(jobSets, j, jobSets[j] + 1)
      /\ analyzed' = Upd(analyzed, j,
            Append(analyzed[j], AnalyzedMove(n + 1, currentEval[j], jobFut[j])))
      /\ currentEval' = Upd(currentEval, j, jobFut[j])
      /\ LoopTop(j, n + 1, jobStatus[j])
      /\ UNCHANGED <<jobDepth, jobCancelReq, jobError, cancelTrue, lastCancel>>
      /\ UNCHANGED <<now, lastOp, stratVars, chatVars, bgVars, genVars, pacVars, fnVars>>

\* a handler that leaves the status alone when the evaluator raises
ExceptionStatusKept(status) == status

\* `except Exception as e: job.status = GameAnalysisStatus.FAILED`
ExceptionStatus(status) == "FAILED"

\* the awaited evaluator call raised: `except Exception`
TaskFails(j) ==
  /\ jobPc[j] \in {"eval0", "evalI"} /\ jobFut[j] = "error" /\ ~jobCancelReq[j]
  /\ jobStatus' = Upd(jobStatus, j, ExceptionStatus(jobStatus[j]))
  /\ jobError' = Upd(jobError, j, "error")
  /\ TaskReturns(j)
  /\ UNCHANGED <<jobDepth, jobCancelReq, jobThread, jobWait, analyzed, currentEval,
                 jobSets, cancelTrue, lastCancel>>
  /\ UNCHANGED <<cacheVars, stratVars, chatVars, bgVars, genVars, pacVars, fnVars>>

\* the event loop resumes a task that was cancelled: CancelledError is thrown
\* in at the await (whatever the awaited future holds by now); a task that never
\* started ends without running _run_analysis, any other runs
\* `except asyncio.CancelledError`
TaskCancelled(j) ==
  /\ jobCancelReq[j] /\ jobPc[j] # "done"
  /\ jobCancelReq' = Upd(jobCancelReq, j, FALSE)
  /\ jobStatus' = IF jobPc[j] = "created" THEN jobStatus
                  ELSE Upd(jobStatus, j, "CANCELLED")
  /\ TaskReturns(j)
  /\ UNCHANGED <<jobDepth, jobThread, jobWait, analyzed, currentEval, jobError,
                 jobSets, cancelTrue, lastCancel>>
  /\ UNCHANGED <<cacheVars, stratVars, chatVars, bgVars, genVars, pacVars, fnVars>>

\* the executor thread finishes stockfish.analyze with a result or an exception;
\* the outcome reaches the task only if it still awaits the future
EvaluatorEnds(j, outcome) ==
  /\ jobThread[j]
  /\ jobThread' = Upd(jobThread, j, FALSE)
  /\ jobFut' = IF jobPc[j] \in {"eval0", "evalI"} /\ ~jobCancelReq[j]
               THEN Upd(jobFut, j, outcome) ELSE Upd(jobFut, j, "discarded")
  /\ UNCHANGED <<jobStatus, jobDepth, jobPc, jobCancelReq, jobWait, analyzed,
                 currentEval, jobError, jobSets, cancelTrue, lastCancel>>
  /\ UNCHANGED <<cacheVars, stratVars, chatVars, bgVars, genVars, pacVars, fnVars>>

\* higher-priority work appears and disappears: a strategic generation is
\* marked pending, and its marker is cleared
PriorityWorkStarts(fen) ==
  /\ mark_analyzing(fen)
  /\ UNCHANGED <<stratCache, cacheVars, chatVars, jobVars, bgVars, genVars, pacVars, fnVars>>

PriorityWorkEnds(fen) ==
  /\ fen \in DOMAIN pending
  /\ cancel_pending(fen)
  /\ UNCHANGED <<stratCache, cacheVars, chatVars, jobVars, bgVars, genVars, pacVars, fnVars>>

JobInit ==
  /\ jobStatus = [j \in JobIds |-> "NONE"]
  /\ jobDepth = [j \in JobIds |-> 1]
  /\ jobPc = [j \in JobIds |-> "none"]
  /\ jobFut = [j \in JobIds |-> "none"]
  /\ jobCancelReq = [j \in JobIds |-> FALSE]
  /\ jobThread = [j \in JobIds |-> FALSE]
  /\ jobWait = [j \in JobIds |-> 0]
  /\ analyzed = [j \in JobIds |-> <<>>]
  /\ currentEval = [j \in JobIds |-> None]
  /\ jobError = [j \in JobIds |-> None]
  /\ jobSets = [j \in JobIds |-> 0]
  /\ cancelTrue = [j \in JobIds |-> 0]
  /\ lastCancel = [job |-> 0, ret |-> FALSE]

JobNext ==
  \/ \E j \in JobIds : StartJob(j, JobDepthOf(j))
  \/ \E j \in JobIds : CancelJob(j)
  \/ \E j \in JobIds : TaskStart(j)
  \/ \E j \in JobIds : TaskPoll(j)
  \/ \E j \in JobIds : TaskStartEval(j)
  \/ \E j \in JobIds : TaskLookup(j)
  \/ \E j \in JobIds : TaskMoveEval(j)
  \/ \E j \in JobIds : TaskFails(j)
  \/ \E j \in JobIds : TaskCancelled(j)
  \/ \E j \in JobIds, o \in Responses \cup {"error"} : EvaluatorEnds(j, o)
  \/ PriorityWorkStarts(FenList[1])
  \/ PriorityWorkEnds(FenList[1])

\* ------------------------------------------------------------------------
\* Cache pre-warming: BackgroundAnalyzer and its BackgroundCacheJob tasks
\* ------------------------------------------------------------------------
BgJobIds == 1..MaxBgJobs
Callers == 1..NumCallers

\* job.depth: the PGN loader starts every pre-warm job at the same low depth
BgDepth == CHOOSE d \in Depths : \A e \in Depths : d <= e

\* the position handled at step p of a pre-warm job: 0 is job.starting_fen
BgFen(p) == IF p = 0 THEN StartingFen ELSE MoveFen(p)

\* the tasks that are not done
BgActive == {j \in BgJobIds : bgPc[j] \in {"created", "running", "sleep"}}

\* no pre-warm task is in the middle of a run: the event loop is free
BgLoopFree == \A j \in BgJobIds : bgPc[j] # "running"

\* the smallest job id not yet used (0 when none is left)
BgFresh ==
  IF \E j \in BgJobIds : bgPc[j] = "none"
  THEN CHOOSE j \in BgJobIds : bgPc[j] = "none" /\ \A i \in BgJobIds : i < j => bgPc[i] # "none"
  ELSE 0

\* mutant of start_analysis / cancel_current_job: the task is neither cancelled
\* nor awaited
MustAwaitNever(t) == FALSE

\* `if self._task and not self._task.done()`: the task is cancelled and awaited
MustAwait(t) == t # 0 /\ bgPc[t] # "done"

\* a test that takes the current job whether or not it is complete
HasAnyJob == bgCurrent # 0

\* `if self._current_job and not self._current_job.is_complete`
HasLiveJob == bgCurrent # 0 /\ ~bgComplete[bgCurrent]

\* start_analysis, "Create new job" to the end: the job and its task are created
\* and the lock is released
CreateBgJob(h) ==
  /\ bgCurrent' = BgFresh
  /\ bgTask' = BgFresh
  /\ bgPc' = Upd(bgPc, BgFresh, "created")
  /\ bgLock' = 0
  /\ callerPc' = Upd(callerPc, h, "idle")

\* BackgroundAnalyzer.start_analysis up to `await self._task`, or to its end
\* when there is nothing to await
BgStart(h) ==
  /\ BgLoopFree /\ callerPc[h] = "idle" /\ bgLock = 0 /\ BgFresh # 0
  /\ IF HasLiveJob
     THEN /\ bgCancelled' = Upd(bgCancelled, bgCurrent, TRUE)
          /\ IF MustAwait(bgTask)
             THEN /\ bgCancelReq' = Upd(bgCancelReq, bgTask, TRUE)
                  /\ bgLock' = h
                  /\ callerPc' = Upd(callerPc, h, "start_await")
                  /\ UNCHANGED <<bgCurrent, bgTask, bgPc>>
             ELSE CreateBgJob(h) /\ UNCHANGED bgCancelReq
     ELSE CreateBgJob(h) /\ UNCHANGED <<bgCancelled, bgCancelReq>>
  /\ UNCHANGED <<bgComplete, bgIndex, bgPos, bgYields, lastBgCancel, bgCancelSeen>>
  /\ UNCHANGED <<cacheVars, stratVars, chatVars, jobVars, genVars, pacVars, bgError, bgLog, fnVars>>

\* start_analysis resumes when the awaited task has ended
BgStartResume(h) ==
  /\ BgLoopFree /\ callerPc[h] = "start_await" /\ bgPc[bgTask] = "done"
  /\ CreateBgJob(h)
  /\ UNCHANGED <<bgCancelled, bgComplete, bgIndex, bgPos, bgCancelReq, bgYields,
                 lastBgCancel, bgCancelSeen>>
  /\ UNCHANGED <<cacheVars, stratVars, chatVars, jobVars, genVars, pacVars, bgError, bgLog, fnVars>>

\* no cancel_current_job call was made yet
NothingSeen == [called |-> FALSE, job |-> 0, is_complete |-> FALSE,
                is_cancelled |-> FALSE, error |-> None, task_done |-> FALSE]

\* self._current_job and self._task as a call finds them under the lock
JobSeen ==
  IF bgCurrent = 0 THEN [NothingSeen EXCEPT !.called = TRUE]
  ELSE [called |-> TRUE, job |-> bgCurrent, is_complete |-> bgComplete[bgCurrent],
        is_cancelled |-> bgCancelled[bgCurrent], error |-> bgError[bgCurrent],
        task_done |-> bgPc[bgTask] = "done"]

\* BackgroundAnalyzer.cancel_current_job up to `await self._task`, or to its end
BgCancel(h) ==
  /\ BgLoopFree /\ callerPc[h] = "idle" /\ bgLock = 0
  /\ bgCancelSeen' = JobSeen
  /\ IF HasLiveJob
     THEN /\ bgCancelled' = Upd(bgCancelled, bgCurrent, TRUE)
          /\ IF MustAwait(bgTask)
             THEN /\ bgCancelReq' = Upd(bgCancelReq, bgTask, TRUE)
                  /\ bgLock' = h
                  /\ callerPc' = Upd(callerPc, h, "cancel_await")
                  /\ UNCHANGED lastBgCancel
             ELSE /\ lastBgCancel' = TRUE
                  /\ UNCHANGED <<bgCancelReq, bgLock, callerPc>>
     ELSE /\ lastBgCancel' = FALSE
          /\ UNCHANGED <<bgCancelled, bgCancelReq, bgLock, callerPc>>
  /\ UNCHANGED <<bgCurrent, bgTask, bgComplete, bgIndex, bgPc, bgPos, bgYields>>
  /\ UNCHANGED <<cacheVars, stratVars, chatVars, jobVars, genVars, pacVars, bgError, bgLog, fnVars>>

\* cancel_current_job resumes when the awaited task has ended, and returns True
BgCancelResume(h) ==
  /\ BgLoopFree /\ callerPc[h] = "cancel_await" /\ bgPc[bgTask] = "done"
  /\ lastBgCancel' = TRUE
  /\ bgLock' = 0
  /\ callerPc' = Upd(callerPc, h, "idle")
  /\ UNCHANGED bgCancelSeen
  /\ UNCHANGED <<bgCurrent, bgTask, bgCancelled, bgComplete, bgIndex, bgPc, bgPos,
                 bgCancelReq, bgYields>>
  /\ UNCHANGED <<cacheVars, stratVars, chatVars, jobVars, genVars, pacVars, bgError, bgLog, fnVars>>

\* what the task did at a position: the cache had it, the evaluator raised, or
\* the evaluator's result was stored
Handled(cached, outcome) ==
  IF cached # None THEN "hit" ELSE IF outcome = "error" THEN "failed" ELSE "stored"

\* mutant of _run_analysis: an evaluator error ends the loop over the moves
NextPositionAbortsOnError(p, how) == IF how = "failed" THEN NumMoves + 1 ELSE p + 1

\* the position handled after position p: the `except Exception` around one
\* position only logs, the loop goes on with the next move
NextPosition(p, how) == p + 1

\* the task may take its next step: it is in the middle of a run, or the event
\* loop is free and resumes it normally
BgMayStep(j) ==
  \/ bgPc[j] = "running"
  \/ BgLoopFree /\ bgPc[j] \in {"created", "sleep"} /\ ~bgCancelReq[j]

\* _run_analysis, "Analyze starting position": no suspension follows it
BgStartingPosition(j, outcome) ==
  LET cached == CacheGetResult(evalCache, BgFen(0), BgDepth, now)
  IN  /\ BgMayStep(j) /\ bgPos[j] = 0
      /\ bgPc' = Upd(bgPc, j, "running")
      /\ bgPos' = Upd(bgPos, j, NextPosition(0, Handled(cached, outcome)))
      /\ bgYields' = Upd(bgYields, j, FALSE)
      /\ bgLog' = IF bgCancelled[j] THEN bgLog
                  ELSE Upd(bgLog, j, Append(bgLog[j], Handled(cached, outcome)))
      /\ IF bgCancelled[j] THEN UNCHANGED evalCache
         ELSE IF cached # None \/ outcome = "error"
              THEN evalCache' = CacheGetState(evalCache, BgFen(0), now)
              ELSE evalCache' = CacheSet(CacheGetState(evalCache, BgFen(0), now),
                                         BgFen(0), outcome, BgDepth, now)
      /\ UNCHANGED <<bgCurrent, bgTask, bgLock, bgCancelled, bgComplete, bgIndex,
                     bgCancelReq, callerPc, lastBgCancel, bgCancelSeen>>
      /\ UNCHANGED <<now, lastOp, stratVars, chatVars, jobVars, genVars, pacVars, bgError, fnVars>>

\* one iteration of `for i, move in enumerate(job.moves)`: the task suspends in
\* asyncio.sleep(0) only after a position it has analysed and cached
BgMovePosition(j, outcome) ==
  LET p == bgPos[j]
      cached == CacheGetResult(evalCache, BgFen(p), BgDepth, now)
  IN  /\ BgMayStep(j) /\ p >= 1 /\ p <= NumMoves /\ ~bgCancelled[j]
      /\ bgIndex' = Upd(bgIndex, j, p - 1)
      /\ bgPos' = Upd(bgPos, j, NextPosition(p, Handled(cached, outcome)))
      /\ bgLog' = Upd(bgLog, j, Append(bgLog[j], Handled(cached, outcome)))
      /\ IF cached # None \/ outcome = "error"
         THEN /\ evalCache' = CacheGetState(evalCache, BgFen(p), now)
              /\ bgPc' = Upd(bgPc, j, "running")
              /\ bgYields' = Upd(bgYields, j, FALSE)
         ELSE /\ evalCache' = CacheSet(CacheGetState(evalCache, BgFen(p), now),
                                       BgFen(p), outcome, BgDepth, now)
              /\ bgPc' = Upd(bgPc, j, "sleep")
              /\ bgYields' = Upd(bgYields, j, TRUE)
      /\ UNCHANGED <<bgCurrent, bgTask, bgLock, bgCancelled, bgComplete, bgCancelReq,
                     callerPc, lastBgCancel, bgCancelSeen>>
      /\ UNCHANGED <<now, lastOp, stratVars, chatVars, jobVars, genVars, pacVars, bgError, fnVars>>

\* the loop ends (all moves handled, or `break` on is_cancelled) and the task
\* returns
BgFinish(j) ==
  /\ BgMayStep(j) /\ bgPos[j] >= 1 /\ (bgPos[j] > NumMoves \/ bgCancelled[j])
  /\ bgComplete' = Upd(bgComplete, j, ~bgCancelled[j])
  /\ bgPc' = Upd(bgPc, j, "done")
  /\ UNCHANGED <<bgCurrent, bgTask, bgLock, bgCancelled, bgIndex, bgPos, bgCancelReq,
                 bgYields, callerPc, lastBgCancel, bgCancelSeen>>
  /\ UNCHANGED <<cacheVars, stratVars, chatVars, jobVars, genVars, pacVars, bgError, bgLog, fnVars>>

\* the event loop resumes a cancelled task: a task that never started ends
\* without running, any other runs `except asyncio.CancelledError`
BgTaskCancelled(j) ==
  /\ BgLoopFree /\ bgCancelReq[j] /\ bgPc[j] \in {"created", "sleep"}
  /\ bgCancelReq' = Upd(bgCancelReq, j, FALSE)
  /\ bgCancelled' = IF bgPc[j] = "sleep" THEN Upd(bgCancelled, j, TRUE) ELSE bgCancelled
  /\ bgPc' = Upd(bgPc, j, "done")
  /\ UNCHANGED <<bgCurrent, bgTask, bgLock, bgComplete, bgIndex, bgPos, bgYields,
                 callerPc, lastBgCancel, bgCancelSeen>>
  /\ UNCHANGED <<cacheVars, stratVars, chatVars, jobVars, genVars, pacVars, bgError, bgLog, fnVars>>

BgInit ==
  /\ bgCurrent = 0
  /\ bgTask = 0
  /\ bgLock = 0
  /\ bgCancelled = [j \in BgJobIds |-> FALSE]
  /\ bgComplete = [j \in BgJobIds |-> FALSE]
  /\ bgIndex = [j \in BgJobIds |-> 0]
  /\ bgPc = [j \in BgJobIds |-> "none"]
  /\ bgPos = [j \in BgJobIds |-> 0]
  /\ bgCancelReq = [j \in BgJobIds |-> FALSE]
  /\ bgYields = [j \in BgJobIds |-> FALSE]
  /\ callerPc = [h \in Callers |-> "idle"]
  /\ lastBgCancel = FALSE
  /\ bgCancelSeen = NothingSeen
  /\ bgError = [j \in BgJobIds |-> None]
  /\ bgLog = [j \in BgJobIds |-> <<>>]

BgNext ==
  \/ \E h \in Callers : BgStart(h)
  \/ \E h \in Callers : BgStartResume(h)
  \/ \E h \in Callers : BgCancel(h)
  \/ \E h \in Callers : BgCancelResume(h)
  \/ \E j \in BgJobIds, o \in Responses \cup {"error"} : BgStartingPosition(j, o)
  \/ \E j \in BgJobIds, o \in Responses \cup {"error"} : BgMovePosition(j, o)
  \/ \E j \in BgJobIds : BgFinish(j)
  \/ \E j \in BgJobIds : BgTaskCancelled(j)

\* ------------------------------------------------------------------------
\* Coach: CoachService.on_position_change, its background generations, chat
\* ------------------------------------------------------------------------
GenIds == 1..MaxGens
Chats == 1..NumChats

\* the generation tasks in flight for a position
GensInFlight(fen) == {g \in GenIds : genPc[g] # "free" /\ genKey[g] = fen}

FreeGens == {g \in GenIds : genPc[g] = "free"}

\* asyncio.create_task(self._analyze_position_background(fen=fen, ...))
NewGen == CHOOSE g \in FreeGens : \A o \in FreeGens : g <= o

\* CoachService.on_position_change
on_position_change(fen) ==
  IF InCache(stratCache, fen)
  THEN /\ stratCache' = StratGetState(stratCache, fen)
       /\ UNCHANGED <<pending, eventSet, genPc, genKey>>
  ELSE IF is_analyzing(fen)
       THEN UNCHANGED <<stratCache, pending, eventSet, genPc, genKey>>
       ELSE /\ FreeGens # {}
            /\ mark_analyzing(fen)
            /\ genPc' = Upd(genPc, NewGen, "created")
            /\ genKey' = Upd(genKey, NewGen, fen)
            /\ UNCHANGED stratCache

\* the frontend reports a new position (the position-change route)
PositionChange(fen) ==
  /\ on_position_change(fen)
  /\ UNCHANGED <<lastGenEnd, genCleared, chatVars, cacheVars, jobVars, bgVars, pacVars, fnVars>>

\* CoachService.clear_cache_for_new_game
ClearForNewGame ==
  /\ StratClear
  /\ genCleared' = [g \in GenIds |-> genPc[g] # "free"]
  /\ UNCHANGED <<genPc, genKey, lastGenEnd>>
  /\ UNCHANGED <<chatVars, cacheVars, jobVars, bgVars, pacVars, fnVars>>

\* _analyze_position_background starts and awaits the evaluator
GenStart(g) ==
  /\ genPc[g] = "created"
  /\ genPc' = Upd(genPc, g, "stockfish")
  /\ UNCHANGED <<genKey, lastGenEnd, genCleared, stratVars, chatVars, cacheVars, jobVars, bgVars, pacVars, fnVars>>

\* the task ends: its slot is free again
GenEnds(g, how) ==
  /\ genPc' = Upd(genPc, g, "free")
  /\ lastGenEnd' = [fen |-> genKey[g], how |-> how]
  /\ genCleared' = Upd(genCleared, g, FALSE)
  /\ UNCHANGED genKey

\* mutant of _analyze_position_background: the except clause does not clear
\* the marker
FailureCleanupMissing(fen) == UNCHANGED <<pending, eventSet>>

\* `except Exception`: self.cache.cancel_pending(fen)
FailureCleanup(fen) == cancel_pending(fen)

\* the evaluator returns and _build_context succeeds: the generator is awaited
GenEvaluated(g) ==
  /\ genPc[g] = "stockfish"
  /\ genPc' = Upd(genPc, g, "claude")
  /\ UNCHANGED <<genKey, lastGenEnd, genCleared, stratVars, chatVars, cacheVars, jobVars, bgVars, pacVars, fnVars>>

\* the evaluator, _build_context or the generator raises
GenFails(g) ==
  /\ genPc[g] \in {"stockfish", "claude"}
  /\ FailureCleanup(genKey[g])
  /\ GenEnds(g, "failed")
  /\ UNCHANGED <<stratCache, chatVars, cacheVars, jobVars, bgVars, pacVars, fnVars>>

\* the generator returns: the analysis is cached
GenStores(g) ==
  /\ genPc[g] = "claude"
  /\ StratSet(genKey[g], g)
  /\ GenEnds(g, "stored")
  /\ UNCHANGED <<chatVars, cacheVars, jobVars, bgVars, pacVars, fnVars>>

\* CoachService.chat up to its first await (request.moves is empty: no
\* neighbour analyses are looked up)
ChatBegin(c, fen) ==
  /\ chatPc[c] = "idle"
  /\ chatFen' = Upd(chatFen, c, fen)
  /\ stratCache' = StratGetState(stratCache, fen)
  /\ IF InCache(stratCache, fen)
     THEN /\ chatPc' = Upd(chatPc, c, "answer")
          /\ UNCHANGED chatEvent
     ELSE IF is_analyzing(fen)
          THEN /\ chatPc' = Upd(chatPc, c, "waiting")
               /\ chatEvent' = Upd(chatEvent, c, pending[fen])
          ELSE /\ chatPc' = Upd(chatPc, c, "eval_fresh")
               /\ UNCHANGED chatEvent
  /\ UNCHANGED <<pending, eventSet, genVars, cacheVars, jobVars, bgVars, pacVars, fnVars>>

\* wait_for_analysis resumes because the event was set; a miss falls back to a
\* fresh evaluation
ChatWake(c) ==
  /\ chatPc[c] = "waiting" /\ eventSet[chatEvent[c]]
  /\ chatEvent' = Upd(chatEvent, c, 0)
  /\ chatPc' = Upd(chatPc, c, IF StratLookup(stratCache, chatFen[c]) # 0
                              THEN "answer" ELSE "eval_pending")
  /\ UNCHANGED <<chatFen, stratVars, genVars, cacheVars, jobVars, bgVars, pacVars, fnVars>>

\* wait_for_analysis: asyncio.TimeoutError, None is returned
ChatTimeout(c) ==
  /\ chatPc[c] = "waiting" /\ ~eventSet[chatEvent[c]]
  /\ chatEvent' = Upd(chatEvent, c, 0)
  /\ chatPc' = Upd(chatPc, c, "eval_pending")
  /\ UNCHANGED <<chatFen, stratVars, genVars, cacheVars, jobVars, bgVars, pacVars, fnVars>>

\* the fresh evaluation after a timeout arrives (or raises: chat ends)
ChatFallbackEvaluated(c, ok) ==
  /\ chatPc[c] = "eval_pending"
  /\ chatPc' = Upd(chatPc, c, IF ok THEN "answer" ELSE "idle")
  /\ chatFen' = IF ok THEN chatFen ELSE Upd(chatFen, c, FenList[1])
  /\ UNCHANGED <<chatEvent, stratVars, genVars, cacheVars, jobVars, bgVars, pacVars, fnVars>>

\* the fresh evaluation of an unknown position arrives: the background
\* generation is triggered through on_position_change
ChatFreshEvaluated(c) ==
  /\ chatPc[c] = "eval_fresh"
  /\ on_position_change(chatFen[c])
  /\ chatPc' = Upd(chatPc, c, "answer")
  /\ UNCHANGED <<chatFen, chatEvent, lastGenEnd, genCleared, cacheVars, jobVars, bgVars, pacVars, fnVars>>

\* the fresh evaluation of an unknown position raises: chat ends
ChatFreshFails(c) ==
  /\ chatPc[c] = "eval_fresh"
  /\ chatPc' = Upd(chatPc, c, "idle")
  /\ chatFen' = Upd(chatFen, c, FenList[1])
  /\ UNCHANGED <<chatEvent, stratVars, genVars, cacheVars, jobVars, bgVars, pacVars, fnVars>>

\* claude.answer_question returns or raises: chat ends
ChatAnswered(c) ==
  /\ chatPc[c] = "answer"
  /\ chatPc' = Upd(chatPc, c, "idle")
  /\ chatFen' = Upd(chatFen, c, FenList[1])
  /\ UNCHANGED <<chatEvent, stratVars, genVars, cacheVars, jobVars, bgVars, pacVars, fnVars>>

GenInit ==
  /\ genPc = [g \in GenIds |-> "free"]
  /\ genKey = [g \in GenIds |-> FenList[1]]
  /\ lastGenEnd = [fen |-> FenList[1], how |-> "none"]
  /\ genCleared = [g \in GenIds |-> FALSE]

\* the steps of generation task g
GenStep(g) == GenStart(g) \/ GenEvaluated(g) \/ GenFails(g) \/ GenStores(g)

CoachNext ==
  \/ \E f \in StratFens : PositionChange(f)
  \/ ClearForNewGame
  \/ \E g \in GenIds : GenStart(g)
  \/ \E g \in GenIds : GenEvaluated(g)
  \/ \E g \in GenIds : GenFails(g)
  \/ \E g \in GenIds : GenStores(g)
  \/ \E c \in Chats, f \in StratFens : ChatBegin(c, f)
  \/ \E c \in Chats : ChatWake(c)
  \/ \E c \in Chats : ChatTimeout(c)
  \/ \E c \in Chats, ok \in BOOLEAN : ChatFallbackEvaluated(c, ok)
  \/ \E c \in Chats : ChatFreshEvaluated(c)
  \/ \E c \in Chats : ChatFreshFails(c)
  \/ \E c \in Chats : ChatAnswered(c)

\* ------------------------------------------------------------------------
\* Move scoring: classify_move and calculate_cp_loss of the game analyzer,
\* and the loss computed by MoveAnalysisService.analyze_move
\* ------------------------------------------------------------------------
\* an Optional[int]: the empty sequence is None, <<n>> is the integer n
NoValue == <<>>
Some(n) == <<n>>

Max(a, b) == IF a >= b THEN a ELSE b

\* Evaluation(type, value); the evaluator reports both kinds from White's
\* perspective (pov_score = score.white())
Evaluation(type, value) == [type |-> type, value |-> value]
EvalValues == (0 - MaxEval)..MaxEval
Evaluations == {Evaluation(t, v) : t \in {"cp", "mate"}, v \in EvalValues}
Losses == {NoValue} \cup {Some(n) : n \in 0..MaxLoss}
Ranks == 0..MaxRank

\* Classification thresholds (centipawns)
THRESHOLDS == [inaccuracy |-> 25, mistake |-> 50, blunder |-> 100]

\* classify_move with the Excellent band ending below 10
classify_move_excellent_below_10(cp_loss, is_best) ==
  IF is_best THEN "BEST"
  ELSE IF cp_loss = NoValue THEN "BLUNDER"
  ELSE IF cp_loss[1] >= THRESHOLDS.blunder THEN "BLUNDER"
  ELSE IF cp_loss[1] >= THRESHOLDS.mistake THEN "MISTAKE"
  ELSE IF cp_loss[1] >= THRESHOLDS.inaccuracy THEN "INACCURACY"
  ELSE IF cp_loss[1] < 10 THEN "EXCELLENT"
  ELSE "GOOD"

\* game_analyzer.classify_move
classify_move(cp_loss, is_best) ==
  IF is_best THEN "BEST"
  ELSE IF cp_loss = NoValue THEN "BLUNDER"
  ELSE IF cp_loss[1] >= THRESHOLDS.blunder THEN "BLUNDER"
  ELSE IF cp_loss[1] >= THRESHOLDS.mistake THEN "MISTAKE"
  ELSE IF cp_loss[1] >= THRESHOLDS.inaccuracy THEN "INACCURACY"
  ELSE IF cp_loss[1] <= 10 THEN "EXCELLENT"
  ELSE IF cp_loss[1] <= 25 THEN "GOOD"
  ELSE "GOOD"

\* calculate_cp_loss without the clamp to zero
calculate_cp_loss_unclamped(eval_before, eval_after, white_to_move) ==
  IF eval_before.type = "mate" \/ eval_after.type = "mate" THEN NoValue
  ELSE IF white_to_move THEN Some(eval_before.value - eval_after.value)
  ELSE Some(eval_after.value - eval_before.value)

\* game_analyzer.calculate_cp_loss
calculate_cp_loss(eval_before, eval_after, white_to_move) ==
  IF eval_before.type = "mate" \/ eval_after.type = "mate" THEN NoValue
  ELSE LET before_cp == eval_before.value
           after_cp == eval_after.value
           cp_loss == IF white_to_move THEN before_cp - after_cp
                      ELSE after_cp - before_cp
       IN  Some(Max(0, cp_loss))

\* MoveAnalysisService.analyze_move: the value of centipawn_loss, from the
\* evaluations of the two analyses and `is_white_move = " w " in fen_before`
centipawn_loss(eval_before, eval_after, is_white_move) ==
  LET best_eval == IF is_white_move THEN eval_before.value ELSE 0 - eval_before.value
      after_eval == IF is_white_move THEN eval_after.value ELSE 0 - eval_after.value
  IN  IF eval_before.type = "cp" /\ eval_after.type = "cp"
      THEN Some(Max(0, best_eval - (0 - after_eval)))
      ELSE NoValue

\* move_analysis_service._classify_move
_classify_move(loss, is_best, move_rank) ==
  IF is_best THEN "BEST"
  ELSE IF move_rank = 2 /\ (loss = NoValue \/ loss[1] < 15) THEN "EXCELLENT"
  ELSE IF move_rank <= 5 /\ (loss = NoValue \/ loss[1] < 25) THEN "GOOD"
  ELSE IF loss = NoValue THEN "INACCURACY"
  ELSE IF loss[1] < 25 THEN "GOOD"
  ELSE IF loss[1] < 50 THEN "INACCURACY"
  ELSE IF loss[1] < 100 THEN "MISTAKE"
  ELSE "BLUNDER"

ScoreArgs(kind, cp_loss, is_best, eval_before, eval_after, white_to_move, move_rank) ==
  [kind |-> kind, cp_loss |-> cp_loss, is_best |-> is_best,
   eval_before |-> eval_before, eval_after |-> eval_after,
   white_to_move |-> white_to_move, move_rank |-> move_rank]

\* the arguments of classify_move: every loss, null included, and both flags
ClassifyInputs ==
  {ScoreArgs("loss", l, b, Evaluation("cp", 0), Evaluation("cp", 0), TRUE, 0) :
     l \in Losses, b \in BOOLEAN}

\* a move as the two analyzers see it: the evaluations before and after it,
\* the side that moved and the rank of the move among the engine's top moves
MoveInputs ==
  {ScoreArgs("move", NoValue, r = 1, e1, e2, w, r) :
     e1 \in Evaluations, e2 \in Evaluations, w \in BOOLEAN, r \in Ranks}

ScoreInputs == ClassifyInputs \cup MoveInputs

ScoreResult(op, loss, classification) ==
  [op |-> op, loss |-> loss, classification |-> classification]

NoScore == ScoreResult("none", NoValue, "NONE")

\* classify_move(cp_loss, is_best) is called
ClassifyMove ==
  /\ scoreIn.kind = "loss"
  /\ scoreOut' = ScoreResult("classify_move", scoreIn.cp_loss,
                             classify_move(scoreIn.cp_loss, scoreIn.is_best))
  /\ UNCHANGED <<scoreIn, valVars, retryVars, cacheVars, stratVars, chatVars,
                 jobVars, bgVars, genVars, pacVars>>

\* _run_analysis scores one move: calculate_cp_loss, then classify_move
ScoreGameMove ==
  LET cp_loss == calculate_cp_loss(scoreIn.eval_before, scoreIn.eval_after,
                                   scoreIn.white_to_move)
  IN  /\ scoreIn.kind = "move"
      /\ scoreOut' = ScoreResult("_run_analysis", cp_loss,
                                 classify_move(cp_loss, scoreIn.is_best))
      /\ UNCHANGED <<scoreIn, valVars, retryVars, cacheVars, stratVars, chatVars,
                     jobVars, bgVars, genVars, pacVars>>

\* analyze_move scores the move: centipawn_loss, then _classify_move
AnalyzeMove ==
  LET loss == centipawn_loss(scoreIn.eval_before, scoreIn.eval_after,
                             scoreIn.white_to_move)
  IN  /\ scoreIn.kind = "move"
      /\ scoreOut' = ScoreResult("analyze_move", loss,
                                 _classify_move(loss, scoreIn.move_rank = 1,
                                                scoreIn.move_rank))
      /\ UNCHANGED <<scoreIn, valVars, retryVars, cacheVars, stratVars, chatVars,
                     jobVars, bgVars, genVars, pacVars>>

\* no move is being scored
ScoreInit ==
  /\ scoreIn = ScoreArgs("none", NoValue, FALSE, Evaluation("cp", 0),
                         Evaluation("cp", 0), TRUE, 0)
  /\ scoreOut = NoScore

\* the scoring functions are given any of the arguments
ScoreStart ==
  /\ scoreIn \in ScoreInputs
  /\ scoreOut = NoScore

ScoreNext == ClassifyMove \/ ScoreGameMove \/ AnalyzeMove

\* ------------------------------------------------------------------------
\* Response validation: ChessEntityExtractor and ChessResponseValidator
\* ------------------------------------------------------------------------
\* A response is modelled as the sequence of its whitespace-separated words,
\* and a span (start, end) counts words where the code counts characters:
\* start is the offset of the first word of the match and end the offset after
\* its last word, as in a Python slice.

\* the words a response is made of
Vocabulary == {"the", "knight", "on", "d4", "c4", "Nc4", "Nf6", "Nxe5", "E2E2", "+1.5"}

ResponseTexts == UNION {[1..n -> Vocabulary] : n \in 0..MaxWords}

\* the characters of the moves in standard algebraic notation that occur in
\* the responses and among the legal moves of the positions
Chars ==
  "d4" :> <<"d", "4">> @@ "c4" :> <<"c", "4">> @@
  "Nc4" :> <<"N", "c", "4">> @@ "Nf6" :> <<"N", "f", "6">> @@
  "Nxe5" :> <<"N", "x", "e", "5">> @@ "Nd4" :> <<"N", "d", "4">> @@
  "exd4" :> <<"e", "x", "d", "4">> @@ "Qf6" :> <<"Q", "f", "6">> @@
  "N6xe5" :> <<"N", "6", "x", "e", "5">> @@
  "Ngxe5" :> <<"N", "g", "x", "e", "5">> @@
  "Nc4xe5" :> <<"N", "c", "4", "x", "e", "5">> @@ "f6" :> <<"f", "6">>

SAN_FILE == {"a", "b", "c", "d", "e", "f", "g", "h"}
SAN_RANK == {"1", "2", "3", "4", "5", "6", "7", "8"}
SAN_PIECE == {"K", "Q", "R", "B", "N"}

\* the words each pattern of the extractor matches as a whole
SquareWords == {"d4", "c4"}
PieceWords == {"king", "queen", "rook", "bishop", "knight", "pawn"}
ColorWords == {"white", "black"}
UnitWords == {"pawn", "pawns", "cp", "centipawn", "centipawns"}
SanWords == {"d4", "c4", "Nc4", "Nf6", "Nxe5"}
UciWords == {"E2E2"}
SignedNumbers == {"+1.5"}
PlainNumbers == {"3"}

\* Two positions. Position 1 is reached by 1.e4 e5 2.d4 (Black to move):
\* rnbqkbnr/pppp1ppp/8/4p3/3PP3/8/PPP2PPP/RNBQKBNR b KQkq - 0 2.
\* Position 2 has three white knights (White to move):
\* k7/8/2N5/4p3/2N3N1/8/8/4K3 w - - 0 1.
\* legal_moves lists, in the order board.legal_moves yields them, the legal
\* moves whose notation names one of the squares c4, d4, e5, f6; parse_san
\* tells how board.parse_san ends for each move of the vocabulary; piece_at
\* gives board.piece_at for the squares of the vocabulary; find_piece is what
\* _find_piece_location returns for a piece when no colour is asked for
Positions ==
  << [legal_moves |-> <<"Nf6", "Qf6", "exd4", "f6">>,
      parse_san |-> ("d4" :> "illegal" @@ "c4" :> "illegal" @@ "Nc4" :> "illegal"
                     @@ "Nf6" :> "legal" @@ "Nxe5" :> "illegal"),
      piece_at |-> ("d4" :> <<"white", "pawn">> @@ "c4" :> <<>>),
      find_piece |-> ("knight" :> <<"White", "knight", "on", "b1">>),
      legal_uci |-> {},
      stockfish_eval |-> [type |-> "cp", value |-> 30],
      best_move_san |-> "exd4"],
     [legal_moves |-> <<"N6xe5", "Nd4", "Nf6", "Ngxe5", "Nc4xe5">>,
      parse_san |-> ("d4" :> "illegal" @@ "c4" :> "illegal" @@ "Nc4" :> "illegal"
                     @@ "Nf6" :> "legal" @@ "Nxe5" :> "ambiguous"),
      piece_at |-> ("d4" :> <<>> @@ "c4" :> <<"white", "knight">>),
      find_piece |-> ("knight" :> <<"White", "knight", "on", "c4">>),
      legal_uci |-> {},
      stockfish_eval |-> [type |-> "cp", value |-> 1000],
      best_move_san |-> None] >>

PositionIds == 1..Len(Positions)

\* text[i] for a 0-based offset i, "" past either end
WordAt(text, i) == IF i + 1 \in 1..Len(text) THEN text[i + 1] ELSE ""

Min(a, b) == IF a <= b THEN a ELSE b

\* the Python slices s[:n] and s[n:] for n >= 0
Take(s, n) == SubSeq(s, 1, Min(n, Len(s)))
Drop(s, n) == SubSeq(s, Min(n, Len(s)) + 1, Len(s))

\* the length in words of the match of a pattern that starts at offset i, 0
\* when there is none
MatchLen(pattern, text, i) ==
  LET w0 == WordAt(text, i)
      w1 == WordAt(text, i + 1)
      w2 == WordAt(text, i + 2)
      w3 == WordAt(text, i + 3)
  IN  CASE pattern = "piece_location_1" ->
             IF w0 \in ColorWords /\ w1 \in PieceWords /\ w2 \in {"on", "at"}
                /\ w3 \in SquareWords THEN 4
             ELSE IF w0 \in PieceWords /\ w1 \in {"on", "at"} /\ w2 \in SquareWords
             THEN 3 ELSE 0
        [] pattern = "piece_location_2" ->
             IF w0 \in SquareWords /\ w1 \in PieceWords THEN 2 ELSE 0
        [] pattern = "piece_location_3" ->
             IF w0 = "the" /\ w1 \in PieceWords /\ w2 = "on" /\ w3 \in SquareWords
             THEN 4
             ELSE IF w0 = "the" /\ w1 \in PieceWords /\ w2 \in SquareWords
             THEN 3 ELSE 0
        [] pattern = "san" -> IF w0 \in SanWords THEN 1 ELSE 0
        [] pattern = "uci" -> IF w0 \in UciWords THEN 1 ELSE 0
        [] pattern = "eval_mate" ->
             IF w0 = "mate" /\ w1 = "in" /\ w2 \in PlainNumbers THEN 3 ELSE 0
        [] pattern = "eval_with_sign" ->
             IF w0 \in SignedNumbers
             THEN (IF w1 \in UnitWords THEN 2 ELSE 1) ELSE 0
        [] pattern = "eval_with_suffix" ->
             IF w0 \in PlainNumbers /\ w1 \in UnitWords THEN 2 ELSE 0

\* an extracted entity: (entity_text, start_pos, end_pos)
Entity(text, start, end) ==
  [text |-> SubSeq(text, start + 1, end), start |-> start, end |-> end]

\* pattern.finditer(text): the matches from left to right, each search starting
\* where the previous match ended
RECURSIVE finditer(_, _, _)
finditer(pattern, text, i) ==
  IF i >= Len(text) THEN <<>>
  ELSE LET n == MatchLen(pattern, text, i)
       IN  IF n > 0
           THEN <<Entity(text, i, i + n)>> \o finditer(pattern, text, i + n)
           ELSE finditer(pattern, text, i + 1)

\* the (start, end) pairs of a list of entities
PositionsOf(entities) == {<<entities[k].start, entities[k].end>> : k \in DOMAIN entities}

\* `pos not in used_positions`
NotUsed(matches, used) ==
  LET Fresh(m) == <<m.start, m.end>> \notin used
  IN  SelectSeq(matches, Fresh)

\* the overlap test of extract_all against the entities found before
Overlaps(m, entities) ==
  \E k \in DOMAIN entities :
    \/ entities[k].start <= m.start /\ m.start < entities[k].end
    \/ entities[k].start < m.end /\ m.end <= entities[k].end

\* ten times the number an evaluation claim names
Tenths == "+1.5" :> 15 @@ "3" :> 30

\* `if -20 <= num <= 20`, num being the first number in the match
InRange(m) == 0 - 200 <= Tenths[m.text[1]] /\ Tenths[m.text[1]] <= 200

\* one `for match in pattern.finditer(text)` loop that appends the matches
\* whose (start, end) pair is not in used_positions
AppendFresh(found, matches, used) ==
  found \o NotUsed(matches, used \cup PositionsOf(found))

\* extract_all, piece locations: the three patterns in turn
ExtractPieceLocations(text) ==
  AppendFresh(AppendFresh(finditer("piece_location_1", text, 0),
                          finditer("piece_location_2", text, 0), {}),
              finditer("piece_location_3", text, 0), {})

\* the matches that overlap none of the entities found before
NotOverlapping(matches, entities) ==
  LET Free(m) == ~Overlaps(m, entities)
  IN  SelectSeq(matches, Free)

\* extract_all, evaluation claims: mate claims, signed numbers, numbers with a
\* unit, the last two when the number is within -20..20
ExtractEvaluations(text, used) ==
  AppendFresh(AppendFresh(NotUsed(finditer("eval_mate", text, 0), used),
                          SelectSeq(finditer("eval_with_sign", text, 0), InRange), used),
              SelectSeq(finditer("eval_with_suffix", text, 0), InRange), used)

\* extract_all from the UCI moves on, given the entities found before
ExtractFromUci(text, piece_locations, san_moves, uci_matches) ==
  [san_moves |-> san_moves, uci_moves |-> uci_matches,
   piece_locations |-> piece_locations,
   evaluations |->
     ExtractEvaluations(text, PositionsOf(piece_locations \o san_moves \o uci_matches))]

\* extract_all from the SAN moves on, given the piece locations
ExtractFromSan(text, piece_locations, san_moves) ==
  ExtractFromUci(text, piece_locations, san_moves,
                 NotUsed(NotOverlapping(finditer("uci", text, 0),
                                        san_moves \o piece_locations),
                         PositionsOf(piece_locations \o san_moves)))

\* extract_all after the piece locations
ExtractFromLocations(text, piece_locations) ==
  ExtractFromSan(text, piece_locations,
                 NotUsed(NotOverlapping(finditer("san", text, 0), piece_locations),
                         PositionsOf(piece_locations)))

\* ChessEntityExtractor.extract_all
extract_all(text) == ExtractFromLocations(text, ExtractPieceLocations(text))

\* ValidatedEntity(...); corrected is the replacement as a list of words, <<>>
\* for None
ValidatedEntity(original, entity_type, is_valid, result, corrected) ==
  [original |-> original, entity_type |-> entity_type, is_valid |-> is_valid,
   result |-> result, corrected |-> corrected, position_in_text |-> <<0, 0>>]

\* `validation.position_in_text = (start, end)`
Positioned(v, m) == [v EXCEPT !.position_in_text = <<m.start, m.end>>]

\* re.search(r'[a-h][1-8]', san): the first file letter followed by a rank
\* digit, <<>> when there is none
RECURSIVE FirstSquare(_, _)
FirstSquare(cs, i) ==
  IF i + 1 > Len(cs) THEN <<>>
  ELSE IF cs[i] \in SAN_FILE /\ cs[i + 1] \in SAN_RANK THEN <<cs[i], cs[i + 1]>>
  ELSE FirstSquare(cs, i + 1)

\* `sub in s` for two strings
Contains(sub, s) ==
  \E i \in 1..(Len(s) - Len(sub) + 1) : SubSeq(s, i, i + Len(sub) - 1) = sub

\* str.islower for one character
islower(c) ==
  c \in {"a", "b", "c", "d", "e", "f", "g", "h", "i", "j", "k", "l", "m", "n", "o",
         "p", "q", "r", "s", "t", "u", "v", "w", "x", "y", "z"}

\* str.rstrip('+#')
RECURSIVE rstrip(_)
rstrip(cs) ==
  IF cs # <<>> /\ cs[Len(cs)] \in {"+", "#"} THEN rstrip(SubSeq(cs, 1, Len(cs) - 1))
  ELSE cs

\* ChessResponseValidator._find_similar_move
_find_similar_move(board, san) ==
  LET target == FirstSquare(Chars[san], 1)
      Similar(legal_san) ==
        /\ Contains(target, Chars[legal_san])
        /\ \/ Chars[san][1] = Chars[legal_san][1]
           \/ islower(Chars[san][1]) /\ islower(Chars[legal_san][1])
      found == SelectSeq(board.legal_moves, Similar)
  IN  IF target = <<>> \/ found = <<>> THEN <<>> ELSE <<found[1]>>

\* ChessResponseValidator._disambiguate_move
_disambiguate_move(board, san) ==
  LET Matches(legal_san) == Contains(rstrip(Chars[san]), rstrip(Chars[legal_san]))
      found == SelectSeq(board.legal_moves, Matches)
  IN  IF found = <<>> THEN <<>> ELSE <<found[1]>>

\* ChessResponseValidator._validate_san_move
_validate_san_move(board, san) ==
  CASE board.parse_san[san] = "legal" ->
         ValidatedEntity(<<san>>, "san_move", TRUE, "VALID", <<>>)
    [] board.parse_san[san] = "invalid" ->
         ValidatedEntity(<<san>>, "san_move", FALSE, "INVALID_SYNTAX", <<>>)
    [] board.parse_san[san] = "illegal" ->
         ValidatedEntity(<<san>>, "san_move", FALSE, "INVALID_MOVE",
                         _find_similar_move(board, san))
    [] board.parse_san[san] = "ambiguous" ->
         ValidatedEntity(<<san>>, "san_move", FALSE, "AMBIGUOUS",
                         _disambiguate_move(board, san))

\* the squares named by uci.lower()
UciSquares == "E2E2" :> <<"e2", "e2">>

\* ChessResponseValidator._validate_uci_move: Move.from_uci raises for a move
\* from a square to itself
_validate_uci_move(board, uci) ==
  IF UciSquares[uci][1] = UciSquares[uci][2]
  THEN ValidatedEntity(<<uci>>, "uci_move", FALSE, "INVALID_SYNTAX", <<>>)
  ELSE IF UciSquares[uci] \in board.legal_uci
  THEN ValidatedEntity(<<uci>>, "uci_move", TRUE, "VALID", <<>>)
  ELSE ValidatedEntity(<<uci>>, "uci_move", FALSE, "INVALID_MOVE", <<>>)

\* the keys of PIECE_MAP in their order
PIECE_MAP == <<"king", "queen", "rook", "bishop", "knight", "pawn">>

\* ChessResponseValidator._validate_piece_location
_validate_piece_location(board, location) ==
  LET words == {location[k] : k \in DOMAIN location}
      Named(name) == name \in words
      IsSquare(w) == w \in SquareWords
      names == SelectSeq(PIECE_MAP, Named)
      squares == SelectSeq(location, IsSquare)
      expected_color == IF "white" \in words THEN "white"
                        ELSE IF "black" \in words THEN "black" ELSE None
  IN  IF names = <<>> \/ squares = <<>>
      THEN ValidatedEntity(location, "piece_location", TRUE, "VALID", <<>>)
      ELSE LET piece == board.piece_at[squares[1]]
           IN  IF piece = <<>>
               THEN ValidatedEntity(location, "piece_location", FALSE, "SQUARE_EMPTY",
                                    board.find_piece[names[1]])
               ELSE IF piece[2] # names[1]
               THEN ValidatedEntity(location, "piece_location", FALSE, "WRONG_PIECE",
                                    <<piece[2], "on", squares[1]>>)
               ELSE IF expected_color # None /\ piece[1] # expected_color
               THEN ValidatedEntity(location, "piece_location", FALSE, "WRONG_PIECE",
                                    <<piece[1], piece[2], "on", squares[1]>>)
               ELSE ValidatedEntity(location, "piece_location", TRUE, "VALID", <<>>)

Abs(n) == IF n >= 0 THEN n ELSE 0 - n

\* ChessResponseValidator._parse_eval_claim
_parse_eval_claim(eval_str) ==
  IF eval_str[1] = "mate" THEN [type |-> "mate", value |-> Tenths[eval_str[3]] \div 10]
  ELSE [type |-> "cp", value |-> Tenths[eval_str[1]] * 10]

\* ChessResponseValidator._evals_match; the tolerance is
\* max(50, abs(actual['value']) * 0.25)
_evals_match(claimed, actual) ==
  IF claimed.type # actual.type THEN FALSE
  ELSE IF claimed.type = "mate" THEN Abs(claimed.value - Abs(actual.value)) <= 1
  ELSE LET diff == Abs(claimed.value - actual.value)
       IN  diff <= 50 \/ 4 * diff <= Abs(actual.value)

\* ChessResponseValidator._format_eval for the evaluations of the positions:
\* f"{value / 100:+.1f}"
_format_eval(eval_data) ==
  IF eval_data.type = "mate" THEN <<"mate", "in", "N">>
  ELSE <<(30 :> "+0.3" @@ 1000 :> "+10.0")[eval_data.value]>>

\* ChessResponseValidator._validate_evaluation
_validate_evaluation(eval_str, stockfish_eval) ==
  IF _evals_match(_parse_eval_claim(eval_str), stockfish_eval)
  THEN ValidatedEntity(eval_str, "evaluation", TRUE, "VALID", <<>>)
  ELSE ValidatedEntity(eval_str, "evaluation", FALSE, "EVALUATION_MISMATCH",
                       _format_eval(stockfish_eval))

\* validation.classify_error_severity
classify_error_severity(entity) ==
  IF entity.is_valid THEN "LOW"
  ELSE IF entity.entity_type \in {"san_move", "uci_move"}
  THEN (IF entity.result = "AMBIGUOUS" THEN "LOW"
        ELSE IF entity.result = "INVALID_MOVE" THEN "HIGH"
        ELSE "CRITICAL")
  ELSE IF entity.entity_type = "piece_location"
  THEN (IF entity.result = "SQUARE_EMPTY" THEN "HIGH"
        ELSE IF entity.result = "WRONG_PIECE" THEN "MEDIUM"
        ELSE "LOW")
  ELSE IF entity.entity_type = "evaluation" THEN "MEDIUM"
  ELSE "MEDIUM"

\* the validations in the order validate_and_correct and _validate_response
\* build them: moves, coordinate moves, piece locations, evaluations
Validations(entities, board) ==
  [k \in DOMAIN entities.san_moves |->
     Positioned(_validate_san_move(board, entities.san_moves[k].text[1]),
                entities.san_moves[k])]
  \o [k \in DOMAIN entities.uci_moves |->
     Positioned(_validate_uci_move(board, entities.uci_moves[k].text[1]),
                entities.uci_moves[k])]
  \o [k \in DOMAIN entities.piece_locations |->
     Positioned(_validate_piece_location(board, entities.piece_locations[k].text),
                entities.piece_locations[k])]
  \o [k \in DOMAIN entities.evaluations |->
     Positioned(_validate_evaluation(entities.evaluations[k].text,
                                     board.stockfish_eval),
                entities.evaluations[k])]

\* sorted(validations, key=lambda v: v.position_in_text[0], reverse=True):
\* by decreasing start, validations with the same start in their given order
RECURSIVE SortedByStartReversed(_, _)
SortedByStartReversed(validations, start) ==
  IF start < 0 THEN <<>>
  ELSE LET StartsHere(v) == v.position_in_text[1] = start
       IN  SelectSeq(validations, StartsHere)
           \o SortedByStartReversed(validations, start - 1)

\* the loop of _apply_corrections over the sorted validations
RECURSIVE Corrected(_, _)
Corrected(result, sorted_validations) ==
  IF sorted_validations = <<>> THEN result
  ELSE LET v == Head(sorted_validations)
           start == v.position_in_text[1]
           end == v.position_in_text[2]
       IN  Corrected(IF v.is_valid THEN result
                     ELSE Take(result, start) \o v.corrected \o Drop(result, end),
                     Tail(sorted_validations))

\* ChessResponseValidator._apply_corrections; the final clean-up of
\* whitespace leaves the words as they are
_apply_corrections(response, validations) ==
  Corrected(response, SortedByStartReversed(validations, Len(response)))

\* ChessResponseValidator._format_eval_natural
_format_eval_natural(eval_data) ==
  IF eval_data.type = "mate"
  THEN <<"winning for", IF eval_data.value > 0 THEN "White" ELSE "Black",
         "with mate in N">>
  ELSE LET side == IF eval_data.value > 0 THEN "White" ELSE "Black"
           cp == Abs(eval_data.value)
       IN  IF cp < 20 THEN <<"roughly equal", "">>
           ELSE IF cp <= 75 THEN <<"slightly better for", side>>
           ELSE IF cp < 150 THEN <<"clearly better for", side>>
           ELSE <<"winning for", side>>

\* ChessResponseValidator._generate_fallback
_generate_fallback(stockfish_eval, best_move_san) ==
  IF best_move_san # None
  THEN <<"The position is">> \o _format_eval_natural(stockfish_eval)
       \o <<"The engine suggests", best_move_san,
            "as the best continuation. Would you like me to explain why?">>
  ELSE <<"The position is">> \o _format_eval_natural(stockfish_eval)
       \o <<"Let me know what specific aspect you'd like to explore.">>

\* the number of invalid validations of one severity
SeverityCount(validations, severity) ==
  Cardinality({k \in DOMAIN validations :
                 /\ ~validations[k].is_valid
                 /\ classify_error_severity(validations[k]) = severity})

\* a decision that replaces the response as soon as one error is High
FallbackOnAnyHigh(critical_count, high_severity_count) ==
  critical_count > 0 \/ high_severity_count > 0

\* `if critical_count > 0 or high_severity_count > 2`
UseFallback(critical_count, high_severity_count) ==
  critical_count > 0 \/ high_severity_count > 2

\* ChessResponseValidator.validate_and_correct: the text returned, with the
\* entities and validations it was computed from
validate_and_correct(response, board) ==
  LET entities == extract_all(response)
      validations == Validations(entities, board)
      fallback == UseFallback(SeverityCount(validations, "CRITICAL"),
                              SeverityCount(validations, "HIGH"))
  IN  IF response = <<>>
      THEN [text |-> response, used_fallback |-> FALSE, validations |-> <<>>,
            entities |-> <<>>]
      ELSE [text |-> IF fallback
                     THEN _generate_fallback(board.stockfish_eval, board.best_move_san)
                     ELSE _apply_corrections(response, validations),
            used_fallback |-> fallback,
            validations |-> validations,
            entities |-> entities.piece_locations \o entities.san_moves
                         \o entities.uci_moves \o entities.evaluations]

\* validate_and_correct is called for the response and the position
ValidateAndCorrect ==
  /\ valOut.op = "none"
  /\ valOut' = [op |-> "validate_and_correct"]
                 @@ validate_and_correct(valText, Positions[valBoard])
  /\ UNCHANGED <<valText, valBoard, scoreVars, retryVars>>
  /\ UNCHANGED <<cacheVars, stratVars, chatVars, jobVars, bgVars, genVars, pacVars>>

NoValidation ==
  [op |-> "none", text |-> <<>>, used_fallback |-> FALSE, validations |-> <<>>,
   entities |-> <<>>]

\* no response is being validated
ValInit ==
  /\ valText = <<>>
  /\ valBoard = 1
  /\ valOut = NoValidation

\* any response about any of the positions is given to the validator
ValStart ==
  /\ valText \in ResponseTexts
  /\ valBoard \in PositionIds
  /\ valOut = NoValidation

\* ChessResponseValidator._validate_response: the fields of the report that
\* validate_with_retry reads
_validate_response(response, board) ==
  LET validations == Validations(extract_all(response), board)
      Invalid(v) == ~v.is_valid
      errors == SelectSeq(validations, Invalid)
      Has(severity) ==
        \E k \in DOMAIN errors : classify_error_severity(errors[k]) = severity
  IN  [errors |-> errors,
       used_fallback |-> FALSE,
       max_severity |-> IF Has("CRITICAL") THEN "CRITICAL"
                        ELSE IF Has("HIGH") THEN "HIGH"
                        ELSE IF Has("MEDIUM") THEN "MEDIUM" ELSE "LOW"]

\* ValidationReport.passed
passed(report) == report.max_severity \in {"LOW", "MEDIUM"} /\ ~report.used_fallback

\* the value None of error_context
NoContext == [errors |-> <<>>, attempt |-> 0, all_legal_moves |-> FALSE]

\* ChessResponseValidator._build_error_feedback: the errors that get a line
\* of feedback, by their text, and whether all legal moves are appended
_build_error_feedback(errors, attempt) ==
  LET HasLine(e) ==
        \/ e.entity_type = "san_move" /\ e.result = "INVALID_MOVE"
        \/ e.entity_type = "piece_location" /\ e.result \in {"SQUARE_EMPTY", "WRONG_PIECE"}
        \/ e.entity_type = "evaluation"
      lines == SelectSeq(errors, HasLine)
  IN  [errors |-> [k \in DOMAIN lines |-> lines[k].original],
       attempt |-> attempt,
       all_legal_moves |-> attempt >= 2]

\* the responses the generator gives
GeneratedTexts == {<<"Nf6">>, <<"Nc4">>, <<"Nxe5">>, <<"c4", "Nf6">>,
                   <<"knight", "on", "d4">>, <<"+1.5">>}

NoResult == [done |-> FALSE, text |-> <<>>, used_fallback |-> FALSE,
             max_severity |-> "LOW"]

\* a loop that makes one attempt and never retries
AttemptsWithoutRetry(max_retries) == 1

\* the number of passes of `for attempt in range(max_retries + 1)`
Attempts(max_retries) == max_retries + 1

\* validate_with_retry: one pass of `for attempt in range(max_retries + 1)`,
\* in which generate_fn returns response, and what follows the loop when the
\* pass was the last one
RetryAttempt(response) ==
  LET board == Positions[valBoard]
      attempt == Len(retryLog)
      report == _validate_response(response, board)
  IN  /\ ~retryOut.done /\ attempt < Attempts(retryMax)
      /\ retryLog' = Append(retryLog, [error_context |-> retryCtx,
                                       response |-> response])
      /\ IF passed(report)
         THEN /\ retryOut' = [done |-> TRUE,
                              text |-> _apply_corrections(response, report.errors),
                              used_fallback |-> report.used_fallback,
                              max_severity |-> report.max_severity]
              /\ UNCHANGED retryCtx
         ELSE /\ retryCtx' = _build_error_feedback(report.errors, attempt + 1)
              /\ retryOut' = IF attempt + 1 < Attempts(retryMax) THEN retryOut
                             ELSE [done |-> TRUE,
                                   text |-> _generate_fallback(board.stockfish_eval,
                                                               board.best_move_san),
                                   used_fallback |-> TRUE,
                                   max_severity |-> "CRITICAL"]
      /\ UNCHANGED <<retryMax, scoreVars, valVars>>
      /\ UNCHANGED <<cacheVars, stratVars, chatVars, jobVars, bgVars, genVars, pacVars>>

\* validate_with_retry is not being called
RetryInit ==
  /\ retryMax = 0
  /\ retryCtx = NoContext
  /\ retryLog = <<>>
  /\ retryOut = NoResult

\* validate_with_retry is called with any max_retries for any of the positions
RetryStart ==
  /\ retryMax \in 0..MaxRetries
  /\ retryCtx = NoContext
  /\ retryLog = <<>>
  /\ retryOut = NoResult
  /\ valText = <<>>
  /\ valBoard \in PositionIds
  /\ valOut = NoValidation

ValNext == ValidateAndCorrect

RetryNext == \E response \in GeneratedTexts : RetryAttempt(response)

CacheInit ==
  /\ evalCache = <<>>
  /\ now = 0
  /\ lastOp = NoOp

CacheNext ==
  \/ \E f \in Fens, r \in Responses, d \in Depths : DoCacheSet(f, r, d)
  \/ \E f \in Fens, m \in MinDepths : DoCacheGet(f, m)
  \/ \E dt \in TimeSteps : Tick(dt)

vars == <<cacheVars, stratVars, chatVars, jobVars, bgVars, genVars, pacVars, fnVars>>

\* the services after construction
ServicesInit == CacheInit /\ StratInit /\ JobInit /\ BgInit /\ GenInit /\ PacInit

Init == ServicesInit /\ ScoreInit /\ ValInit /\ RetryInit

\* the evaluation cache under arbitrary callers and the passing of time
CacheSpec == Init /\ [][CacheNext]_vars

\* the full-game analysis jobs, their cancellation and the priority work
JobSpec == Init /\ [][JobNext]_vars

\* one job, with cancel_job calls, pending markers that come and go, and another
\* service that caches the position after the first move
OneJob == {1}

OneJobNext ==
  \/ \E j \in OneJob : StartJob(j, JobDepthOf(j))
  \/ \E j \in OneJob : CancelJob(j)
  \/ \E j \in OneJob : TaskStart(j)
  \/ \E j \in OneJob : TaskPoll(j)
  \/ \E j \in OneJob : TaskStartEval(j)
  \/ \E j \in OneJob : TaskLookup(j)
  \/ \E j \in OneJob : TaskMoveEval(j)
  \/ \E j \in OneJob : TaskFails(j)
  \/ \E j \in OneJob : TaskCancelled(j)
  \/ \E j \in OneJob, o \in Responses \cup {"error"} : EvaluatorEnds(j, o)
  \/ PriorityWorkStarts(FenList[1])
  \/ PriorityWorkEnds(FenList[1])
  \/ \E r \in Responses : DoCacheSet(MoveFen(1), r, MaxDepth)

\* the event loop resumes every task that can run, every sleep ends and every
\* evaluator call returns or raises; nothing makes a pending marker go away
JobFairness ==
  \A j \in OneJob :
    /\ WF_vars(TaskStart(j)) /\ WF_vars(TaskPoll(j)) /\ WF_vars(TaskStartEval(j))
    /\ WF_vars(TaskLookup(j)) /\ WF_vars(TaskMoveEval(j)) /\ WF_vars(TaskFails(j))
    /\ WF_vars(TaskCancelled(j))
    /\ WF_vars(\E o \in Responses \cup {"error"} : EvaluatorEnds(j, o))

\* a full-game analysis job under a fair scheduler
JobFairSpec == Init /\ [][OneJobNext]_vars /\ JobFairness

\* the pre-warmer under concurrent start_analysis and cancel_current_job calls
PrewarmSpec == Init /\ [][BgNext]_vars

\* the coach: position changes, chats, background generations, cache clears
CoachSpec == Init /\ [][CoachNext]_vars

\* the services are idle and a scoring function is about to be called
ScoreEntry == ServicesInit /\ ScoreStart /\ ValInit /\ RetryInit

\* the services are idle and validate_and_correct is about to be called
ValEntry == ServicesInit /\ ScoreInit /\ ValStart /\ RetryInit

\* the services are idle and validate_with_retry is about to be called
RetryEntry == ServicesInit /\ ScoreInit /\ RetryStart

\* the scoring functions applied to every argument
ScoreSpec == ScoreEntry /\ [][ScoreNext]_vars

\* validate_and_correct applied to every response and position
ValSpec == ValEntry /\ [][ValNext]_vars

\* validate_with_retry with a generator that returns any of its responses
RetrySpec == RetryEntry /\ [][RetryNext]_vars

\* PositionAnalysisCache under arbitrary callers and waiters
PacSpec == Init /\ [][PacNext]_vars

\* the same when the event loop resumes every task that can run
PacFairSpec == PacSpec /\ \A w \in Waiters : WF_vars(WaitResume(w))

\* the coach when every executor call of a generation returns or raises
CoachFairSpec == CoachSpec /\ \A g \in GenIds : WF_vars(GenStep(g))

\* ------------------------------------------------------------------------
\* Properties
\* ------------------------------------------------------------------------

\* C1: for every position key, at most one background strategic-analysis
\* generation task is in flight at any time, whatever the interleaving of
\* on_position_change, chat, clear and the end of generations.
C1_AtMostOneGenerationPerKey ==
  \A f \in StratFens : Cardinality(GensInFlight(f)) <= 1

\* C2: every background generation clears the marker of its key on every exit
\* path (set on success, cancel_pending on failure), so the key eventually stops
\* being marked as analyzing and the generation ends; no waiter is blocked on
\* an event whose marker is gone or whose key has no generation in flight.
C2_MarkerClearedOnEveryExit ==
  /\ [][\A g \in GenIds :
          (genPc[g] # "free" /\ genPc'[g] = "free") => ~(genKey[g] \in DOMAIN pending')]_vars
  /\ [](\A c \in Chats :
          (chatPc[c] = "waiting" /\ ~eventSet[chatEvent[c]]) =>
             \E f \in DOMAIN pending : pending[f] = chatEvent[c] /\ GensInFlight(f) # {})
  /\ \A g \in GenIds : \A f \in StratFens :
          (genPc[g] # "free" /\ genKey[g] = f) ~> (genPc[g] = "free" /\ ~is_analyzing(f))

\* a waiter has been woken because the generation of its position failed and
\* cancel_pending removed the marker
C2_Witness ==
  /\ lastGenEnd.how = "failed"
  /\ ~is_analyzing(lastGenEnd.fen)
  /\ \E c \in Chats :
       chatPc[c] = "waiting" /\ chatFen[c] = lastGenEnd.fen /\ eventSet[chatEvent[c]]

StatusRank(status) ==
  CASE status = "NONE" -> 0
    [] status = "PENDING" -> 1
    [] status = "IN_PROGRESS" -> 2
    [] OTHER -> 3

\* C3: under any interleaving of a job's task with cancel_job calls the job
\* status never moves backwards, and a status of Completed, Failed or Cancelled
\* never changes again.
C3_StatusMonotonic ==
  [][\A j \in JobIds :
       /\ StatusRank(jobStatus'[j]) >= StatusRank(jobStatus[j])
       /\ jobStatus[j] \in Terminal => jobStatus'[j] = jobStatus[j]]_vars

\* a job was cancelled after it had analysed a move, its task has handled the
\* cancellation, and another job ran to completion
C3_Witness ==
  \E j \in JobIds, k \in JobIds :
    /\ jobStatus[j] = "CANCELLED" /\ jobPc[j] = "done" /\ Len(analyzed[j]) >= 1
    /\ jobStatus[k] = "COMPLETED"

\* C4: cancel_job returns false and changes no job's status when the id is
\* unknown or the job is already terminal; otherwise it sets the status to
\* Cancelled, requests cancellation of the task and returns true; so at most one
\* cancel_job call per job ever returns true.
C4_CancelJobContract ==
  [][\A j \in JobIds :
       CancelJob(j) =>
         /\ lastCancel'.job = j
         /\ IF jobStatus[j] = "NONE" \/ jobStatus[j] \in Terminal
            THEN /\ ~lastCancel'.ret
                 /\ jobStatus' = jobStatus
                 /\ jobCancelReq' = jobCancelReq
            ELSE /\ lastCancel'.ret
                 /\ jobStatus' = Upd(jobStatus, j, "CANCELLED")
                 /\ jobCancelReq'[j]
         /\ cancelTrue'[j] <= 1]_vars

\* a cancel_job call on a job returned false after an earlier one on the same
\* job had returned true
C4_Witness ==
  \E j \in JobIds : cancelTrue[j] = 1 /\ lastCancel = [job |-> j, ret |-> FALSE]

\* C5: when cancel_job has returned true for a job, the task of the job has
\* terminated.
C5_CancelAwaitsTermination ==
  \A j \in JobIds : cancelTrue[j] > 0 => jobPc[j] = "done"

\* C6: after cancel_job has returned true for a job, analyzed_moves of the job
\* never grows and its task makes no further evaluation-cache set, also when an
\* evaluator call of the job was in flight and completes afterwards.
C6_ResultsDiscardedAfterCancel ==
  [][\A j \in JobIds :
       cancelTrue[j] > 0 => (analyzed'[j] = analyzed[j] /\ jobSets'[j] = jobSets[j])]_vars

\* the evaluator call that was in flight when the job was cancelled has
\* completed after the task ended; its result was dropped
C6_Witness ==
  \E j \in JobIds :
    cancelTrue[j] > 0 /\ jobPc[j] = "done" /\ jobFut[j] = "discarded" /\ ~jobThread[j]

\* C7: at most one pre-warm task is not done at any time: start_analysis
\* creates the task of the new job only when the previous task has terminated.
C7_AtMostOnePrewarmTask ==
  Cardinality(BgActive) <= 1

\* a pre-warm task was cancelled while suspended and has ended, and the task of
\* a later job exists
C7_Witness ==
  \E i \in BgJobIds, j \in BgJobIds :
    /\ i # j /\ bgPc[i] = "done" /\ bgCancelled[i] /\ bgPos[i] >= 1
    /\ j \in BgActive

\* C8: immediately after set(fen, r, d), get(fen, m) with m <= d is a hit,
\* whatever the cache held before and however much time had passed.
C8_GetAfterSetHits ==
  lastOp.op = "set" =>
    \A m \in 0..lastOp.depth : CacheGetResult(evalCache, lastOp.fen, m, now) # None

C10_NoOpWhenDepthAtLeast ==
  (lastOp.op = "set" /\ lastOp.prev # NoEntry /\ lastOp.prev.depth >= lastOp.depth) =>
    Lookup(evalCache, _normalize_fen(lastOp.fen)) = lastOp.prev

\* C10 amended: set is a no-op exactly when the stored entry has depth > d; with
\* an entry of equal or lower depth the response, depth and timestamp stored
\* are those of the call.
C10_NoOpOnlyWhenDeeper ==
  (lastOp.op = "set" /\ lastOp.prev # NoEntry) =>
    Lookup(evalCache, _normalize_fen(lastOp.fen)) =
      IF lastOp.prev.depth > lastOp.depth
      THEN lastOp.prev
      ELSE CacheEntry(lastOp.response, now, lastOp.depth)

\* a set of the same depth as the stored entry, with another response and at a
\* later time
C10_Witness ==
  /\ lastOp.op = "set" /\ lastOp.prev # NoEntry
  /\ lastOp.prev.depth = lastOp.depth
  /\ lastOp.prev.response # lastOp.response
  /\ lastOp.prev.timestamp < now

\* C11: get(fen, min_depth) returns the stored response if and only if an entry
\* exists under the normalized key, its age is at most the TTL and its depth is
\* at least min_depth; with no entry, an expired entry or an entry of
\* insufficient depth it returns None.
C11_GetHitsExactlyWhenFreshAndDeep ==
  lastOp.op = "get" =>
    LET entry == lastOp.prev
        usable == /\ entry # NoEntry
                  /\ now - entry.timestamp <= DEFAULT_TTL_SECONDS
                  /\ entry.depth >= lastOp.depth
    IN  lastOp.result = IF usable THEN entry.response ELSE None

\* a get found an entry whose age is exactly the TTL and whose depth is exactly
\* min_depth, under a FEN that differs from the stored one in its clocks
C11_Witness ==
  /\ lastOp.op = "get" /\ lastOp.prev # NoEntry
  /\ now - lastOp.prev.timestamp = DEFAULT_TTL_SECONDS
  /\ lastOp.prev.depth = lastOp.depth
  /\ lastOp.fen = FenList[3]
  /\ lastOp.result = lastOp.prev.response

\* the stored key whose most recent use is the oldest
LeastRecentlyUsed(cache, order) ==
  CHOOSE f \in {cache[i].fen : i \in 1..Len(cache)} :
    \E i \in 1..Len(order) :
      /\ order[i].fen = f
      /\ \A k \in 1..(i - 1) : ~InCache(cache, order[k].fen)

\* C12: when a set of a new key pushes the strategic cache over capacity, the
\* key evicted is the stored key whose most recent use (get hit or set) is the
\* oldest; every other stored key is kept; so a key read via get after every
\* other stored key was last used is not the one evicted.
C12_EvictsLeastRecentlyUsed ==
  [][\A f \in PacFens, a \in Analyses :
       (PacSet(f, a) /\ ~InCache(stratCache, f) /\ Len(stratCache) = max_size) =>
          /\ ~InCache(stratCache', LeastRecentlyUsed(stratCache, useOrder))
          /\ InCache(stratCache', f)
          /\ \A g \in PacFens :
               (InCache(stratCache, g) /\ g # LeastRecentlyUsed(stratCache, useOrder))
                  => InCache(stratCache', g)
          /\ (max_size >= 2 /\ useOrder[Len(useOrder)].by = "get") =>
               InCache(stratCache', useOrder[Len(useOrder)].fen)]_vars

\* the key that was stored first and then read by get has survived an
\* overflowing set, which evicted the key stored after it
C12_Witness ==
  /\ Len(stratCache) = max_size
  /\ Len(useOrder) = max_size + 1
  /\ useOrder[1] = [fen |-> PacFenList[2], by |-> "set"]
  /\ useOrder[2] = [fen |-> PacFenList[1], by |-> "get"]
  /\ useOrder[Len(useOrder)].by = "set"
  /\ stratCache[1].fen = PacFenList[1]
  /\ ~InCache(stratCache, PacFenList[2])

\* C13: after every operation of PositionAnalysisCache, in any order, the
\* number of stored analyses is at most max_size.
C13_SizeBounded ==
  Len(stratCache) <= max_size

\* the cache is full and a key that was stored has been evicted
C13_Witness ==
  /\ Len(stratCache) = max_size
  /\ \E i \in 1..Len(useOrder) : ~InCache(stratCache, useOrder[i].fen)

\* C14: mark_analyzing of a key that is already pending keeps its event; a
\* task blocked in wait_for_analysis awaits the event of the marker of its key;
\* set(key, ...) and cancel_pending(key) remove the marker and wake every task
\* blocked on the key, and no task is woken more than once during one call.
C14_AtMostOnePending ==
  /\ [][\A f \in WaitFens :
          (PacMark(f) /\ f \in DOMAIN pending) => UNCHANGED <<pending, eventSet>>]_vars
  /\ [](\A w \in Waiters :
          /\ waitWoken[w] <= 1
          /\ waitPc[w] = "blocked" =>
               IF eventSet[waitEvent[w]]
               THEN waitWoken[w] = 1
               ELSE /\ waitWoken[w] = 0
                    /\ waitFen[w] \in DOMAIN pending
                    /\ pending[waitFen[w]] = waitEvent[w])
  /\ [][\A f \in PacFens :
          ((\E a \in Analyses : PacSet(f, a)) \/ PacCancelPending(f)) =>
             /\ f \notin DOMAIN pending'
             /\ \A w \in Waiters :
                  (waitPc[w] = "blocked" /\ waitFen[w] = f) =>
                     (eventSet'[waitEvent[w]] /\ waitWoken'[w] = 1)]_vars

\* two tasks blocked on the same key have both been woken, the key is no longer
\* pending, and an earlier call on the key had ended by its timeout
C14_Witness ==
  /\ \A w \in Waiters :
       waitPc[w] = "blocked" /\ waitFen[w] = PacFenList[1] /\ waitWoken[w] = 1
  /\ PacFenList[1] \notin DOMAIN pending
  /\ lastWait.how = "absent"

\* C15: if set(key, a) runs while a task is blocked in wait_for_analysis(key)
\* and its timeout has not elapsed, the call returns an analysis (not None),
\* whatever operations on other keys run before the task resumes.
C15_WaiterGetsAnalysisAfterSet ==
  [][\A w \in Waiters :
       (WaitResume(w) /\ waitPc[w] = "blocked" /\ waitSetSeen[w]) =>
          lastWait'.result # 0]_vars

\* C16: wait_for_analysis never raises on expiry and never blocks past its
\* timeout: a call whose timeout elapsed while the marker was still pending
\* resumes and returns None.
C16_TimeoutReturnsAbsent ==
  /\ [][\A w \in Waiters :
          (waitPc[w] = "timedout" /\ waitPc'[w] # "timedout") =>
             lastWait' = [how |-> "absent", result |-> 0]]_vars
  /\ [](lastWait.how # "raised")
  /\ \A w \in Waiters : (waitPc[w] = "timedout") ~> (waitPc[w] = "idle")

\* a call has timed out and returned None although the analysis of its key was
\* stored between the timeout and the resumption of the task
C16_Witness ==
  /\ lastWait = [how |-> "absent", result |-> 0]
  /\ InCache(stratCache, PacFenList[1])
  /\ \A w \in Waiters : waitPc[w] = "idle"
  /\ DOMAIN pending = {}

\* C17: analyzed_moves of a job is at every moment a prefix of its move list in
\* ply order, it only grows by appending the next move, and the eval_before of
\* every analysed move is the eval_after of the move before it; the eval_before
\* of the first move is the evaluation of the starting position, which
\* current_eval holds from the moment the evaluator returned it; this holds
\* whether eval_after came from the cache or from the evaluator.
C17_MovesInPlyOrderAndChained ==
  /\ [](\A j \in JobIds :
          /\ Len(analyzed[j]) <= NumMoves
          /\ \A i \in 1..Len(analyzed[j]) :
               /\ analyzed[j][i].ply = i
               /\ i > 1 => analyzed[j][i].eval_before = analyzed[j][i - 1].eval_after)
  /\ [][\A j \in JobIds :
          LET n == Len(analyzed[j]) IN
          /\ analyzed'[j] # analyzed[j] =>
               /\ Len(analyzed'[j]) = n + 1
               /\ SubSeq(analyzed'[j], 1, n) = analyzed[j]
               /\ analyzed'[j][n + 1].eval_before = currentEval[j]
               /\ currentEval'[j] = analyzed'[j][n + 1].eval_after
          /\ (analyzed'[j] = analyzed[j] /\ currentEval'[j] # currentEval[j]) =>
               /\ n = 0 /\ currentEval[j] = None
               /\ jobPc[j] = "eval0" /\ currentEval'[j] = jobFut[j]]_vars

\* a job has analysed two moves whose evaluations differ from the ones before
\* them, one taken from the cache and one from the evaluator
C17_Witness ==
  \E j \in JobIds :
    /\ Len(analyzed[j]) = 2 /\ jobSets[j] = 1
    /\ analyzed[j][1].eval_before # analyzed[j][1].eval_after
    /\ analyzed[j][2].eval_before # analyzed[j][2].eval_after

\* C18: when start_analysis has returned the job id, the job is already
\* InProgress: no caller observes a job in Pending.
C18_NeverObservedPending ==
  \A j \in JobIds : jobStatus[j] # "PENDING"

\* C19: after every position of the move sequence that is followed by another
\* one, whatever its outcome (cached, evaluated or failed), the pre-warm task
\* suspends before it handles the next position.
C19_YieldsAfterEveryPosition ==
  [][\A j \in BgJobIds :
       (Len(bgLog'[j]) > Len(bgLog[j]) /\ bgPos[j] >= 1 /\ bgPos[j] < NumMoves) =>
          bgPc'[j] = "sleep"]_vars

\* C20: an evaluator error at a position of a pre-warm job skips that position
\* only: the task goes on with the next position, every position is looked up
\* and, when the cache does not have it, evaluated, and a job that is not
\* cancelled ends with is_complete set, error unset and all positions handled.
C20_FailedPositionSkipped ==
  /\ [](\A j \in BgJobIds :
          (bgPc[j] = "done" /\ ~bgCancelled[j]) =>
             /\ bgComplete[j]
             /\ bgError[j] = None
             /\ Len(bgLog[j]) = NumMoves + 1)
  /\ [][\A j \in BgJobIds :
          LET p == Len(bgLog[j])
              cached == CacheGetResult(evalCache, BgFen(p), BgDepth, now)
          IN  Len(bgLog'[j]) > p =>
                /\ p = bgPos[j]
                /\ \E how \in {"hit", "stored", "failed"} :
                     /\ bgLog'[j] = Append(bgLog[j], how)
                     /\ how = "hit" <=> cached # None
                     /\ how = "failed" =>
                          /\ bgPos'[j] = p + 1
                          /\ bgPc'[j] # "done"
                          /\ bgCancelled'[j] = bgCancelled[j]
                          /\ bgError'[j] = None]_vars

\* a pre-warm job is complete although the evaluator raised at its starting
\* position and at its first move; the position after them was evaluated and
\* stored
C20_Witness ==
  \E j \in BgJobIds :
    /\ bgComplete[j] /\ bgPc[j] = "done"
    /\ bgLog[j][1] = "failed" /\ bgLog[j][2] = "failed" /\ bgLog[j][3] = "stored"

C29_CancelObservedDuringPriorityWait ==
  [][\A j \in JobIds :
       (jobStatus[j] = "CANCELLED" /\ jobPc[j] \in {"wait0", "waitI"})
       => /\ ENABLED TaskCancelled(j)
          /\ analyzed'[j] = analyzed[j]
          /\ jobStatus'[j] = "CANCELLED"
          /\ jobPc'[j] # jobPc[j]
             => /\ jobPc'[j] = "done"
                /\ jobWait'[j] = jobWait[j]
                /\ jobThread'[j] = jobThread[j]]_vars

\* cancel_job has just returned True for a job that has polled at least once
\* and sleeps in the poll loop while a strategic generation is pending
C29_Witness ==
  \E j \in JobIds :
    /\ lastCancel = [job |-> j, ret |-> TRUE]
    /\ jobPc[j] \in {"wait0", "waitI"} /\ jobWait[j] >= 1
    /\ jobCancelReq[j] /\ jobStatus[j] = "CANCELLED"
    /\ _has_pending_priority_work

\* two six-field FENs that agree in every field but the halfmove clock (5th)
\* and the fullmove number (6th)
DifferOnlyInClocks(f, g) ==
  /\ Len(f) = 6 /\ Len(g) = 6
  /\ \A i \in 1..4 : f[i] = g[i]

\* the FENs of the model and every prefix of them (a short FEN has fewer than
\* four fields)
FenPrefixes == {SubSeq(f, 1, k) : f \in Fens, k \in 0..6}

\* C30: two FENs that differ only in their clock fields have the same key, so
\* that at any time get answers the same under both, and what set has just
\* stored under one is what get returns under the other; normalizing a
\* normalized FEN, or a short one, changes nothing
C30_ClocksIgnoredInKey ==
  /\ \A f \in Fens, g \in Fens :
       DifferOnlyInClocks(f, g) =>
         /\ _normalize_fen(f) = _normalize_fen(g)
         /\ \A m \in MinDepths :
              CacheGetResult(evalCache, f, m, now) = CacheGetResult(evalCache, g, m, now)
  /\ \A f \in FenPrefixes : _normalize_fen(_normalize_fen(f)) = _normalize_fen(f)
  /\ (lastOp.op = "set" /\ (lastOp.prev = NoEntry \/ lastOp.prev.depth <= lastOp.depth))
     => \A g \in Fens :
          DifferOnlyInClocks(lastOp.fen, g) =>
            \A m \in 0..lastOp.depth :
              CacheGetResult(evalCache, g, m, now) = lastOp.response

\* set has just stored a result under the FEN with clocks 7 and 12 in an empty
\* slot, and get under the FEN with clocks 0 and 1 returns it
C30_Witness ==
  /\ lastOp.op = "set" /\ lastOp.fen = FenList[3] /\ lastOp.prev = NoEntry
  /\ FenList[1] # FenList[3] /\ DifferOnlyInClocks(FenList[1], FenList[3])
  /\ CacheGetResult(evalCache, FenList[1], lastOp.depth, now) = lastOp.response

\* the classes of MoveClassification that classify_move returns
MoveClasses == {"BEST", "EXCELLENT", "GOOD", "INACCURACY", "MISTAKE", "BLUNDER"}

\* C25: classify_move returns exactly one class for every loss (an integer
\* >= 0 or null) and flag: Best when is_best, whatever the loss; otherwise
\* Blunder for null and for a loss >= 100, Mistake for 50..99, Inaccuracy for
\* 25..49, Good for 11..24 and Excellent for a loss <= 10
C25_ClassifyMoveBands ==
  scoreOut.op = "classify_move" =>
    LET l == scoreIn.cp_loss
        c == scoreOut.classification
    IN  /\ c \in MoveClasses
        /\ scoreIn.is_best => c = "BEST"
        /\ (~scoreIn.is_best /\ l = NoValue) => c = "BLUNDER"
        /\ (~scoreIn.is_best /\ l # NoValue) =>
             /\ l[1] >= 100 <=> c = "BLUNDER"
             /\ l[1] \in 50..99 <=> c = "MISTAKE"
             /\ l[1] \in 25..49 <=> c = "INACCURACY"
             /\ l[1] \in 11..24 <=> c = "GOOD"
             /\ l[1] <= 10 <=> c = "EXCELLENT"

\* classify_move has returned Excellent for a loss of exactly 10
C25_Witness ==
  /\ scoreOut.op = "classify_move"
  /\ scoreIn.cp_loss = Some(10) /\ ~scoreIn.is_best
  /\ scoreOut.classification = "EXCELLENT"

\* C26: with both evaluations from White's perspective, calculate_cp_loss
\* returns null when either evaluation is a mate score; otherwise before - after
\* for a move by White and after - before for a move by Black, replaced by 0
\* when that difference is negative, so the result is never negative
C26_CpLossClamped ==
  scoreOut.op = "_run_analysis" =>
    LET b == scoreIn.eval_before
        a == scoreIn.eval_after
        d == IF scoreIn.white_to_move THEN b.value - a.value ELSE a.value - b.value
    IN  /\ (b.type = "mate" \/ a.type = "mate") <=> scoreOut.loss = NoValue
        /\ scoreOut.loss # NoValue =>
             /\ scoreOut.loss[1] >= 0
             /\ d >= 0 => scoreOut.loss[1] = d
             /\ d < 0 => scoreOut.loss[1] = 0

\* White moved and the evaluation rose: the negative difference became 0
C26_Witness ==
  /\ scoreOut.op = "_run_analysis" /\ scoreIn.white_to_move
  /\ scoreIn.eval_before.type = "cp" /\ scoreIn.eval_after.type = "cp"
  /\ scoreIn.eval_before.value < scoreIn.eval_after.value
  /\ scoreOut.loss = Some(0)

\* C27: for two centipawn evaluations from White's perspective and either
\* side to move, analyze_move computes the centipawn loss that
\* calculate_cp_loss computes
C27_AnalyzeMoveLossAgrees ==
  (/\ scoreOut.op = "analyze_move"
   /\ scoreIn.eval_before.type = "cp" /\ scoreIn.eval_after.type = "cp")
  => scoreOut.loss = calculate_cp_loss(scoreIn.eval_before, scoreIn.eval_after,
                                       scoreIn.white_to_move)

\* the invalid entities of one severity among the validations
InvalidOf(validations, severity) ==
  {k \in DOMAIN validations :
     ~validations[k].is_valid /\ classify_error_severity(validations[k]) = severity}

\* C22: validate_and_correct returns the fallback text, built from the
\* authoritative evaluation and best move alone, exactly when the invalid
\* entities contain one of severity Critical or more than two of severity
\* High; otherwise it returns the response with the corrections and strips
\* applied
C22_FallbackDecision ==
  valOut.op = "validate_and_correct" =>
    LET board == Positions[valBoard]
        critical == InvalidOf(valOut.validations, "CRITICAL")
        high == InvalidOf(valOut.validations, "HIGH")
    IN  /\ valOut.used_fallback <=> (critical # {} \/ Cardinality(high) > 2)
        /\ valOut.used_fallback =>
             valOut.text = _generate_fallback(board.stockfish_eval, board.best_move_san)
        /\ ~valOut.used_fallback =>
             valOut.text = _apply_corrections(valText, valOut.validations)

\* a response with exactly two High errors and no Critical one was returned
\* with its two illegal moves corrected or stripped, not replaced
C22_Witness ==
  /\ valOut.op = "validate_and_correct" /\ ~valOut.used_fallback
  /\ InvalidOf(valOut.validations, "CRITICAL") = {}
  /\ Cardinality(InvalidOf(valOut.validations, "HIGH")) = 2
  /\ valOut.text # valText

\* the destination square of a move in algebraic notation: the last file
\* letter followed by a rank digit
RECURSIVE Destination(_, _)
Destination(cs, i) ==
  IF i < 1 THEN <<>>
  ELSE IF cs[i] \in SAN_FILE /\ cs[i + 1] \in SAN_RANK THEN <<cs[i], cs[i + 1]>>
  ELSE Destination(cs, i - 1)

\* C23: an algebraic move that is illegal in the position is removed or
\* replaced by a legal move to the same destination square, and unless the
\* token is a bare square no word of the returned text is the illegal token
C23_IllegalMoveReplacedOrRemoved ==
  valOut.op = "validate_and_correct" =>
    \A k \in DOMAIN valOut.validations :
      LET v == valOut.validations[k]
          token == v.original[1]
          legal == {Positions[valBoard].legal_moves[i] :
                      i \in DOMAIN Positions[valBoard].legal_moves}
      IN  (v.entity_type = "san_move" /\ v.result = "INVALID_MOVE") =>
            /\ \/ v.corrected = <<>>
               \/ /\ v.corrected[1] \in legal
                  /\ Destination(Chars[v.corrected[1]], Len(Chars[v.corrected[1]]) - 1)
                       = Destination(Chars[token], Len(Chars[token]) - 1)
            /\ token \notin SquareWords =>
                 \A j \in DOMAIN valOut.text : valOut.text[j] # token

\* C24: no two entities that extract_all returns have overlapping spans
C24_NoOverlappingEntities ==
  valOut.op = "validate_and_correct" =>
    \A i \in DOMAIN valOut.entities, j \in DOMAIN valOut.entities :
      i # j => \/ valOut.entities[i].end <= valOut.entities[j].start
               \/ valOut.entities[j].end <= valOut.entities[i].start

\* a response fails validation when one of its invalid entities is of
\* severity High or Critical
FailsValidation(response) ==
  LET errors == _validate_response(response, Positions[valBoard]).errors
  IN  \E k \in DOMAIN errors : classify_error_severity(errors[k]) \in {"HIGH", "CRITICAL"}

\* C28: validate_with_retry with max_retries = N calls the generator at most
\* N + 1 times, first without error context and then with the feedback built
\* from the errors of the attempt just before; no call follows a response that
\* passes, which is returned with its corrections; the fallback is returned,
\* with used_fallback set, exactly when N + 1 responses have failed
C28_RetryLoop ==
  LET n == Len(retryLog)
      board == Positions[valBoard]
      Feedback(k) ==
        _build_error_feedback(_validate_response(retryLog[k].response, board).errors, k)
      allFailed == \A k \in 1..n : FailsValidation(retryLog[k].response)
  IN  /\ n <= retryMax + 1
      /\ n >= 1 => retryLog[1].error_context = NoContext
      /\ \A k \in 2..n : /\ retryLog[k].error_context = Feedback(k - 1)
                          /\ retryLog[k].error_context # NoContext
      /\ \A k \in 1..(n - 1) : FailsValidation(retryLog[k].response)
      /\ retryOut.done <=> (n = retryMax + 1 \/ ~allFailed)
      /\ (retryOut.done /\ retryOut.used_fallback) <=> (n = retryMax + 1 /\ allFailed)
      /\ retryOut.done =>
           retryOut.text =
             IF allFailed
             THEN _generate_fallback(board.stockfish_eval, board.best_move_san)
             ELSE _apply_corrections(retryLog[n].response,
                                     _validate_response(retryLog[n].response, board).errors)

\* with max_retries = 2 the generator was called three times, the second and
\* third time with feedback, every response failed and the fallback was returned
C28_Witness ==
  /\ retryMax = 2 /\ Len(retryLog) = 3
  /\ retryOut.done /\ retryOut.used_fallback
  /\ retryLog[1].error_context = NoContext
  /\ retryLog[3].error_context.attempt = 2
  /\ retryLog[3].error_context.errors # <<>>

\* C31: cancel_current_job returns true exactly when it found a job that was
\* still running: it returns false when there is no current job and when the
\* current job was already complete, already cancelled or ended with an error
C31_CancelReturnsTrueOnlyIfRunning ==
  (bgCancelSeen.called /\ \A h \in Callers : callerPc[h] # "cancel_await") =>
    (lastBgCancel <=> /\ bgCancelSeen.job # 0
                      /\ ~bgCancelSeen.is_complete
                      /\ ~bgCancelSeen.is_cancelled
                      /\ bgCancelSeen.error = None)

\* C35: is_complete and is_cancelled of a pre-warm job are never both true: a
\* cancelled job stays cancelled and never becomes complete, a complete job
\* stays complete and is never marked cancelled
C35_NeverCompleteAndCancelled ==
  [][\A j \in BgJobIds :
       /\ ~(bgComplete[j] /\ bgCancelled[j])
       /\ bgCancelled[j] => (bgCancelled'[j] /\ ~bgComplete'[j])
       /\ bgComplete[j] => (bgComplete'[j] /\ ~bgCancelled'[j])]_vars

\* a cancel_current_job call found the current job complete and left it
\* unmarked, while an earlier job was cancelled after it had handled a position
\* and never became complete
C35_Witness ==
  /\ \E j \in BgJobIds : bgComplete[j] /\ ~bgCancelled[j] /\ bgCancelSeen.job = j
                          /\ bgCancelSeen.is_complete
  /\ \E j \in BgJobIds : bgCancelled[j] /\ ~bgComplete[j] /\ bgPc[j] = "done"
                          /\ bgLog[j] # <<>>
\* C32: the full-game analyzer dispatches an evaluator call only at a moment
\* when no strategic generation is pending, or when the priority wait of that
\* step has used up its MAX_PRIORITY_WAITS polls
C32_DispatchOnlyWhenNoPriorityWork ==
  [][\A j \in JobIds :
       (~jobThread[j] /\ jobThread'[j]) =>
         (~_has_pending_priority_work \/ jobWait'[j] >= MaxPriorityWaits)]_vars
\* C33: every full-game analysis job that was started eventually reaches a
\* terminal status, whether or not a pending marker is ever cleared
C33_JobTerminates ==
  \A j \in OneJob : (jobStatus[j] # "NONE") ~> (jobStatus[j] \in Terminal)

\* a job completed although a marker was pending when its last priority wait
\* gave up after MAX_PRIORITY_WAITS polls, and is still pending
C33_Witness ==
  \E j \in OneJob :
    /\ jobStatus[j] = "COMPLETED" /\ jobWait[j] = MaxPriorityWaits
    /\ _has_pending_priority_work
\* C34: a background generation that was in flight when the cache was cleared
\* ends without an effect on the cache: it stores no analysis and removes no
\* marker
C34_NoEffectAfterClear ==
  [][\A g \in GenIds :
       (genCleared[g] /\ genPc[g] # "free" /\ genPc'[g] = "free") =>
         (stratCache' = stratCache /\ pending' = pending)]_vars
\* C36: validate_with_retry accepts a generated response, returning its
\* corrected text without another attempt and without the fallback, exactly
\* when validate_and_correct does not replace that response by the fallback
C36_SameAcceptancePolicy ==
  \A k \in DOMAIN retryLog :
    LET accepted == k = Len(retryLog) /\ retryOut.done /\ ~retryOut.used_fallback
    IN  accepted <=>
          ~validate_and_correct(retryLog[k].response, Positions[valBoard]).used_fallback
====
